---- MODULE Spec2Model ----
(***************************************************************************)
(* Entity resolution and knowledge-graph unification of thodel/outremer.   *)
(*                                                                         *)
(* Python strings are modelled as sequences of characters (one-character   *)
(* TLA+ strings; characters outside ASCII carry a descriptive name), so    *)
(* that normalise, slugify and the scorers are computed, not assumed.      *)
(*                                                                         *)
(*   SpecMerge : scripts/build_unified_kg.py, match_persons on the loaded  *)
(*               authority, Wikidata export and extracted mentions.        *)
(*   SpecLink  : scripts/run_pipeline.py, build_authority_lookup and       *)
(*               link_voyagers_to_outremer.                                *)
(***************************************************************************)
EXTENDS Integers, Sequences, FiniteSets, TLC

VARIABLES
    persons,     \* "persons" list of outremer_index.json as read by the merger
    authority,   \* dict auth_id -> entity of load_outremer_authority, in dict order
    wikidata,    \* dict qid -> entity of load_wikidata_peerage, in dict order
    extracted,   \* list of extracted person mentions (load_extracted_persons)
    graphs,      \* unified graphs returned by the calls of match_persons so far
    index_file,  \* what the path of the authority index holds (run_pipeline)
    pc,          \* position of run_pipeline's main: load, build, link, done
    raised,      \* name of the exception that ended the run, "" while none has
    outremer,    \* outremer_index, the value load_outremer_index returned
    lookup,      \* authority_lookup, the list build_authority_lookup returned
    mentions,    \* person mentions handed to link_voyagers_to_outremer
    top_k,       \* parameter top_k of link_voyagers_to_outremer
    rapidfuzz,   \* whether "from rapidfuzz import fuzz" succeeds in this install
    links,       \* the Link list link_voyagers_to_outremer returned, once it has
    norm_in,     \* a string handed to normalise
    norm_out,    \* the results of normalise on it and then on its own result
    rp_in,       \* reconcile_person: name, limit and what Wikidata answers
    rp_out,      \* reconcile_person: the list it returned, once it has
    rc_docs,     \* the document files of site/data, sorted by file name
    rc_file,     \* what site/data/wikidata_matches.json holds
    existing,    \* the dict "existing" of a reconciliation run in progress
    rc_pc,       \* runs completed, and the document and link a run is at
    rc_queries,  \* the reconcile_person calls made so far: run, doc id, key
    rc_edited,   \* whether the documents changed since the last completed run
    rc_calls,    \* the network calls made so far, each with the time it was made at
    rc_clock,    \* milliseconds the runs have spent in time.sleep
    key_in,      \* two person names handed to the normalisers of the scripts
    key_out,     \* the keys each normaliser gave the two names, once it has
    queue,       \* data/staging/queue.json: the list of upload items
    staging,     \* the file names present in data/staging
    raw_dir,     \* the file names present in data/raw
    pipeline     \* the pipeline runs cmd_process started: item id, return code

vars == <<persons, authority, wikidata, extracted, graphs,
          index_file, pc, raised, outremer, lookup, mentions, top_k, rapidfuzz,
          links, norm_in, norm_out, rp_in, rp_out,
          rc_docs, rc_file, existing, rc_pc, rc_queries, rc_edited,
          rc_calls, rc_clock, key_in, key_out, queue, staging, raw_dir, pipeline>>

mergeVars == <<persons, authority, wikidata, extracted, graphs>>
linkVars == <<index_file, pc, raised, outremer, lookup, mentions, top_k, rapidfuzz,
              links>>
normVars == <<norm_in, norm_out>>
personVars == <<rp_in, rp_out>>
reconVars == <<rc_docs, rc_file, existing, rc_pc, rc_queries, rc_edited,
               rc_calls, rc_clock>>
keyVars == <<key_in, key_out>>
stagingVars == <<queue, staging, raw_dir, pipeline>>
extraVars == <<keyVars, stagingVars>>
restVars == <<normVars, personVars, reconVars, extraVars>>

\* ------------------------------------------------------------------------
\* Bounds of the model
\* ------------------------------------------------------------------------
MaxAuth == 2
MaxWd == 2
MaxExt == 2
MaxCalls == 2
MaxEntries == 2
MaxMentions == 2
MaxLen == 4
MaxResults == 2
MaxLinks == 2
MaxRuns == 2

\* ------------------------------------------------------------------------
\* Generic sequence helpers
\* ------------------------------------------------------------------------
Range(s) == {s[i] : i \in 1..Len(s)}

RECURSIVE Flatten(_)
Flatten(ss) == IF ss = <<>> THEN <<>> ELSE Head(ss) \o Flatten(Tail(ss))

SeqMap(Op(_), s) == [i \in 1..Len(s) |-> Op(s[i])]

RECURSIVE SeqFilter(_, _)
SeqFilter(Keep(_), s) ==
    IF s = <<>> THEN <<>>
    ELSE IF Keep(Head(s)) THEN <<Head(s)>> \o SeqFilter(Keep, Tail(s))
         ELSE SeqFilter(Keep, Tail(s))

\* All sequences over S of length at most n.
SeqsUpTo(S, n) == UNION {[1..k -> S] : k \in 0..n}

\* d[k] = v, as a Python dict assignment.
DictPut(d, k, v) == [x \in DOMAIN d \cup {k} |-> IF x = k THEN v ELSE d[x]]

\* ------------------------------------------------------------------------
\* Characters.  "e_acute", "E_ACUTE", "a_acute", "A_ACUTE" are U+00E9, U+00C9,
\* U+00E1, U+00C1; "COMB_ACUTE" is the combining mark U+0301; "TAB" is U+0009.
\* ------------------------------------------------------------------------
LowerLetters == {"a", "b", "c", "d", "e", "h", "j", "n", "o", "s"}
UpperLetters == {"A", "B", "J"}
AccentedLetters == {"e_acute", "E_ACUTE", "a_acute", "A_ACUTE"}
Digits == {"1", "2"}

\* str.lower() on one character.
LowerChar(c) ==
    CASE c = "A" -> "a"
      [] c = "B" -> "b"
      [] c = "J" -> "j"
      [] c = "E_ACUTE" -> "e_acute"
      [] c = "A_ACUTE" -> "a_acute"
      [] OTHER -> c

\* unicodedata.normalize("NFKD", c) for one character.
Decompose(c) ==
    CASE c = "e_acute" -> <<"e", "COMB_ACUTE">>
      [] c = "E_ACUTE" -> <<"E", "COMB_ACUTE">>
      [] c = "a_acute" -> <<"a", "COMB_ACUTE">>
      [] c = "A_ACUTE" -> <<"A", "COMB_ACUTE">>
      [] OTHER -> <<c>>

\* unicodedata.combining(c) # 0
IsCombining(c) == c = "COMB_ACUTE"

\* \s of re (str patterns)
IsSpace(c) == c \in {" ", "TAB"}

\* \w of re (str patterns): Unicode letters, digits and the underscore.
IsWord(c) ==
    c \in LowerLetters \cup UpperLetters \cup AccentedLetters \cup Digits \cup {"_", "E"}

\* [a-z0-9] of slugify
IsSlugChar(c) == c \in LowerLetters \cup Digits

\* str.strip(chars): drop leading and trailing characters of the set.
RECURSIVE LStrip(_, _)
LStrip(s, cs) == IF s # <<>> /\ Head(s) \in cs THEN LStrip(Tail(s), cs) ELSE s

RECURSIVE RStrip(_, _)
RStrip(s, cs) ==
    IF s # <<>> /\ s[Len(s)] \in cs THEN RStrip(SubSeq(s, 1, Len(s) - 1), cs) ELSE s

Strip(s, cs) == RStrip(LStrip(s, cs), cs)

\* re.sub(<class>+, rep, s): every maximal run of characters of the class
\* becomes one rep.
RECURSIVE SubRuns(_, _, _)
SubRuns(InClass(_), rep, s) ==
    IF s = <<>> THEN <<>>
    ELSE IF InClass(Head(s))
         THEN IF Len(s) > 1 /\ InClass(s[2])
              THEN SubRuns(InClass, rep, Tail(s))
              ELSE <<rep>> \o SubRuns(InClass, rep, Tail(s))
         ELSE <<Head(s)>> \o SubRuns(InClass, rep, Tail(s))

\* ------------------------------------------------------------------------
\* normalise (build_unified_kg.py and run_pipeline.py carry the same body)
\* ------------------------------------------------------------------------
NFKD(s) == Flatten(SeqMap(Decompose, s))

DropCombining(s) == LET Keep(c) == ~IsCombining(c) IN SeqFilter(Keep, s)

PunctToSpace(s) ==
    LET Sub(c) == IF ~IsWord(c) /\ ~IsSpace(c) THEN " " ELSE c IN SeqMap(Sub, s)

CollapseSpace(s) == SubRuns(IsSpace, " ", s)

LowerStr(s) == SeqMap(LowerChar, s)

\* Mutant of normalise: punctuation is replaced after the whitespace runs
\* are collapsed.
normalise_PunctAfterCollapse(s) ==
    Strip(LowerStr(PunctToSpace(CollapseSpace(DropCombining(NFKD(s))))), {" ", "TAB"})

normalise(s) ==
    Strip(LowerStr(CollapseSpace(PunctToSpace(DropCombining(NFKD(s))))), {" ", "TAB"})

\* ------------------------------------------------------------------------
\* slugify (build_unified_kg.py)
\* ------------------------------------------------------------------------
SlugFallback == <<"p", "e", "r", "s", "o", "n">>

slugify(name) ==
    LET lowered == Strip(LowerStr(name), {" ", "TAB"})
        NotSlug(c) == ~IsSlugChar(c)
        IsDash(c) == c = "-"
        dashed == SubRuns(IsDash, "-", SubRuns(NotSlug, "-", lowered))
        s == Strip(dashed, {"-"})
    IN IF s = <<>> THEN SlugFallback ELSE s

\* ------------------------------------------------------------------------
\* String literals of build_unified_kg.py
\* ------------------------------------------------------------------------
WikidataPrefix == <<"W", "I", "K", "I", "D", "A", "T", "A", ":">>
ExtractedPrefix == <<"E", "X", "T", "R", "A", "C", "T", "E", "D", ":">>
WikidataQidLiteral == <<"w", "i", "k", "i", "d", "a", "t", "a", "_", "q", "i", "d">>
Unknown == <<"u", "n", "k", "n", "o", "w", "n">>
\* Python's None, where a string could stand.
PyNone == <<"NONE">>

\* Confidences of the merger, in hundredths.
AuthorityConfidence == 100
WikidataConfidence == 100
DefaultConfidence == 50

\* dict.get(key, default)
DictGet(d, k, default) == IF k \in DOMAIN d THEN d[k] ELSE default

\* ------------------------------------------------------------------------
\* load_outremer_authority: one entity per person record with an authority_id
\* ------------------------------------------------------------------------
AuthorityEntity(p) ==
    [id |-> p.authority_id,
     preferred_label |-> p.preferred_label,
     identifiers |-> [outremer_auth |-> p.authority_id],
     names |-> [preferred |-> p.preferred_label,
                variants |-> p.variants,
                normalized |-> SeqMap(normalise, p.variants)
                               \o <<normalise(p.preferred_label)>>],
     bio |-> <<>>,
     roles |-> <<>>,
     relationships |-> <<>>,
     places |-> <<>>,
     sources |-> <<[type |-> "authority", source_file |-> Unknown,
                    confidence |-> AuthorityConfidence]>>,
     flags |-> <<>>]

\* persons[auth_id] = {...} on a dict kept in insertion order
EntityPut(ents, e) ==
    IF \E i \in 1..Len(ents) : ents[i].id = e.id
    THEN [i \in 1..Len(ents) |-> IF ents[i].id = e.id THEN e ELSE ents[i]]
    ELSE Append(ents, e)

RECURSIVE LoadFrom(_, _)
LoadFrom(ents, ps) ==
    IF ps = <<>> THEN ents
    ELSE IF Head(ps).authority_id = <<>>
         THEN LoadFrom(ents, Tail(ps))
         ELSE LoadFrom(EntityPut(ents, AuthorityEntity(Head(ps))), Tail(ps))

load_outremer_authority(ps) == LoadFrom(<<>>, ps)

\* ------------------------------------------------------------------------
\* load_wikidata_peerage: the entity created for the first row of a QID
\* ------------------------------------------------------------------------
WikidataEntity(qid, item_label) ==
    [id |-> WikidataPrefix \o qid,
     preferred_label |-> item_label,
     identifiers |-> [wikidata_qid |-> qid],
     names |-> [preferred |-> item_label,
                variants |-> <<item_label>>,
                normalized |-> <<normalise(item_label)>>],
     bio |-> [birth |-> PyNone, death |-> PyNone, floruit |-> PyNone,
              gender |-> Unknown],
     roles |-> <<>>,
     relationships |-> <<>>,
     places |-> <<>>,
     sources |-> <<[type |-> "wikidata", confidence |-> WikidataConfidence]>>,
     flags |-> <<>>]

\* ------------------------------------------------------------------------
\* match_persons
\* ------------------------------------------------------------------------
\* unified = dict(authority): the same entity objects under the same keys
DictOf(ents) ==
    [k \in {ents[i].id : i \in 1..Len(ents)} |->
        (CHOOSE e \in Range(ents) : e.id = k)]

RECURSIVE IndexNorms(_, _, _)
IndexNorms(idx, auth_id, norms) ==
    IF norms = <<>> THEN idx
    ELSE IndexNorms(DictPut(idx, Head(norms),
                            DictGet(idx, Head(norms), <<>>) \o <<auth_id>>),
                    auth_id, Tail(norms))

RECURSIVE AuthIndexFrom(_, _)
AuthIndexFrom(idx, auth) ==
    IF auth = <<>> THEN idx
    ELSE AuthIndexFrom(IndexNorms(idx, Head(auth).id, Head(auth).names.normalized),
                       Tail(auth))

\* auth_by_normalized: normalized name -> list of authority ids
AuthByNormalized(auth) == AuthIndexFrom(<<>>, auth)

\* wd_by_normalized: only its key set is read
WdByNormalized(wd) == {normalise(wd[i].preferred_label) : i \in 1..Len(wd)}

\* Mutant of MergedEntity: the merge also flags the entity.
MergedEntity_SetsFlag(e, qid) ==
    [e EXCEPT !.identifiers = ("wikidata_qid" :> qid) @@ e.identifiers,
              !.sources = Append(e.sources,
                                 [type |-> "wikidata", match_type |-> "exact",
                                  confidence |-> WikidataConfidence]),
              !.flags = [merged |-> TRUE]]

\* Mutant of MergedEntity: the QID is set and no provenance entry is appended.
MergedEntity_NoProvenance(e, qid) ==
    [e EXCEPT !.identifiers = ("wikidata_qid" :> qid) @@ e.identifiers]

\* Mutant of MergedEntity: the identifier map is replaced, not extended.
MergedEntity_ReplacesIdentifiers(e, qid) ==
    [e EXCEPT !.identifiers = [wikidata_qid |-> qid],
              !.sources = Append(e.sources,
                                 [type |-> "wikidata", match_type |-> "exact",
                                  confidence |-> WikidataConfidence])]

\* The merge of one Wikidata record into the authority entity it matched.
MergedEntity(e, qid) ==
    [e EXCEPT !.identifiers = ("wikidata_qid" :> qid) @@ e.identifiers,
              !.sources = Append(e.sources,
                                 [type |-> "wikidata", match_type |-> "exact",
                                  confidence |-> WikidataConfidence])]

\* Mutant of UniqueAuthMatch: an ambiguous label is merged into its first id.
UniqueAuthMatch_FirstOfMany(idx, wd_norm) ==
    wd_norm \in DOMAIN idx /\ Len(idx[wd_norm]) >= 1

\* Tier 1 test: the label is in the reverse index, under exactly one id.
UniqueAuthMatch(idx, wd_norm) == wd_norm \in DOMAIN idx /\ Len(idx[wd_norm]) = 1

RECURSIVE MatchWikidata(_, _, _)
MatchWikidata(auth, idx, wd) ==
    IF wd = <<>> THEN auth
    ELSE LET wd_norm == normalise(Head(wd).preferred_label)
             qid == Head(wd).identifiers.wikidata_qid
         IN IF UniqueAuthMatch(idx, wd_norm)
            THEN LET auth_id == idx[wd_norm][1]
                 IN MatchWikidata(
                        [i \in 1..Len(auth) |->
                            IF auth[i].id = auth_id
                            THEN MergedEntity(auth[i], qid) ELSE auth[i]],
                        idx, Tail(wd))
            ELSE MatchWikidata(auth, idx, Tail(wd))

\* The test of the second loop: the literal "wikidata_qid" is looked up among
\* the QIDs (or None) of the entities of the unified graph.
HasNoWikidataQid(unified) ==
    WikidataQidLiteral \notin
        {DictGet(unified[k].identifiers, "wikidata_qid", PyNone) : k \in DOMAIN unified}

RECURSIVE AddUnmatchedWikidata(_, _)
AddUnmatchedWikidata(unified, wd) ==
    IF wd = <<>> THEN unified
    ELSE LET qid == Head(wd).identifiers.wikidata_qid
         IN IF HasNoWikidataQid(unified)
            THEN AddUnmatchedWikidata(DictPut(unified, WikidataPrefix \o qid, Head(wd)),
                                      Tail(wd))
            ELSE AddUnmatchedWikidata(unified, Tail(wd))

ExtractedEntity(ext_person) ==
    LET name == ext_person.name
        person_id == ExtractedPrefix \o slugify(name)
    IN [id |-> person_id,
        preferred_label |-> name,
        identifiers |-> <<>>,
        names |-> [preferred |-> name,
                   variants |-> <<name>>,
                   normalized |-> <<normalise(name)>>],
        bio |-> [gender |-> Unknown],
        roles |-> <<>>,
        relationships |-> <<>>,
        places |-> <<>>,
        sources |-> <<[type |-> "extraction",
                       source_file |-> PyNone,
                       confidence |-> DictGet(ext_person, "confidence",
                                              DefaultConfidence)]>>,
        flags |-> [needs_review |-> TRUE]]

\* "if not name or len(name) < 3: continue"
SkippedName(name) == name = <<>> \/ Len(name) < 3

\* Mutant of NameMatched: the Wikidata labels are not consulted.
NameMatched_AuthorityOnly(idx, wdNorms, name) == normalise(name) \in DOMAIN idx

\* "matched": the name is a key of one of the two reverse indices
NameMatched(idx, wdNorms, name) ==
    normalise(name) \in DOMAIN idx \/ normalise(name) \in wdNorms

RECURSIVE ProcessExtracted(_, _, _, _)
ProcessExtracted(unified, idx, wdNorms, ext) ==
    IF ext = <<>> THEN unified
    ELSE LET name == DictGet(Head(ext), "name", <<>>)
         IN IF SkippedName(name) \/ NameMatched(idx, wdNorms, name)
            THEN ProcessExtracted(unified, idx, wdNorms, Tail(ext))
            ELSE ProcessExtracted(
                     DictPut(unified, ExtractedPrefix \o slugify(name),
                             ExtractedEntity(Head(ext))),
                     idx, wdNorms, Tail(ext))

\* The call: the returned graph, and the authority dict as the call leaves it
\* (unified holds the caller's entity objects, which the first loop changes
\* in place).
match_persons(auth, wd, ext) ==
    LET idx == AuthByNormalized(auth)
        merged == MatchWikidata(auth, idx, wd)
        withWd == AddUnmatchedWikidata(DictOf(merged), wd)
    IN [unified |-> ProcessExtracted(withWd, idx, WdByNormalized(wd), ext),
        authority |-> merged]

\* ------------------------------------------------------------------------
\* Inputs of the merger
\* ------------------------------------------------------------------------
John == <<"J", "o", "h", "n">>
LowerJohn == <<"j", "o", "h", "n">>
Ann == <<"A", "n", "n">>
AccentedAnn == <<"A_ACUTE", "n", "n">>
Jo == <<"J", "o">>

AuthIdOf(i) == <<"A", "U", "T", "H", ":">> \o <<IF i = 1 THEN "1" ELSE IF i = 2 THEN "2" ELSE "3">>
QidOf(i) == <<"Q">> \o <<IF i = 1 THEN "1" ELSE IF i = 2 THEN "2" ELSE "3">>

\* Person records of the authority file: a label alone, a label repeated
\* among its own variants, and a label with another person's name as variant.
AuthPool ==
    {[preferred_label |-> John, variants |-> <<>>],
     [preferred_label |-> John, variants |-> <<LowerJohn>>],
     [preferred_label |-> Ann, variants |-> <<LowerJohn>>]}
WdLabels == {John, AccentedAnn}
\* Mentions: a name of two characters, and a name with and without confidence.
ExtPool == {[name |-> Jo, confidence |-> 90], [name |-> Ann, confidence |-> 90],
            [name |-> Ann]}

PersonFiles ==
    UNION {{[i \in 1..n |-> [authority_id |-> AuthIdOf(i),
                             preferred_label |-> ps[i].preferred_label,
                             variants |-> ps[i].variants]] :
              ps \in [1..n -> AuthPool]} :
           n \in 0..MaxAuth}

WikidataExports ==
    UNION {{[i \in 1..n |-> WikidataEntity(QidOf(i), ls[i])] : ls \in [1..n -> WdLabels]} :
           n \in 0..MaxWd}

\* The state of the parts of the repository a specification does not run.
IdleNorm == norm_in = <<>> /\ norm_out = <<>>
IdlePerson == rp_in = <<>> /\ rp_out = <<>>
IdleRecon ==
    /\ rc_docs = <<>>
    /\ rc_file = <<>>
    /\ existing = <<>>
    /\ rc_pc = <<>>
    /\ rc_queries = {}
    /\ rc_edited = FALSE
    /\ rc_calls = <<>>
    /\ rc_clock = 0
IdleKeys == key_in = <<>> /\ key_out = <<>>
IdleStaging == queue = <<>> /\ staging = {} /\ raw_dir = {} /\ pipeline = <<>>
IdleExtra == IdleKeys /\ IdleStaging
IdleRest == IdleNorm /\ IdlePerson /\ IdleRecon /\ IdleExtra

InitMerge ==
    /\ persons \in PersonFiles
    /\ authority = load_outremer_authority(persons)
    /\ wikidata \in WikidataExports
    /\ extracted \in SeqsUpTo(ExtPool, MaxExt)
    /\ graphs = <<>>
    /\ index_file = <<>>
    /\ pc = "merge"
    /\ raised = ""
    /\ outremer = <<>>
    /\ lookup = <<>>
    /\ mentions = <<>>
    /\ top_k = 0
    /\ rapidfuzz = FALSE
    /\ links = <<>>
    /\ IdleRest

\* unified = match_persons(authority, wikidata, extracted), on the loaded inputs
MatchPersonsCall ==
    /\ Len(graphs) < MaxCalls
    /\ LET r == match_persons(authority, wikidata, extracted)
       IN /\ authority' = r.authority
          /\ graphs' = Append(graphs, r.unified)
    /\ UNCHANGED <<persons, wikidata, extracted, linkVars, restVars>>

NextMerge == MatchPersonsCall

SpecMerge == InitMerge /\ [][NextMerge]_vars

\* ------------------------------------------------------------------------
\* The merger on names at the edge of normalise and slugify: a record
\* without a label, labels and mentions of punctuation alone, and mentions
\* of accented letters alone.
\* ------------------------------------------------------------------------
Dashes == <<"-", "-", "-">>
TripleA == <<"a_acute", "a_acute", "a_acute">>
TripleE == <<"e_acute", "e_acute", "e_acute">>

\* p.get("preferred_label", "") of a record that has no label is "".
EdgeAuthPool ==
    {[preferred_label |-> <<>>, variants |-> <<>>],
     [preferred_label |-> John, variants |-> <<>>]}
EdgeWdLabels == {Dashes, John}
EdgeExtPool == {[name |-> Dashes], [name |-> TripleA], [name |-> TripleE], [name |-> John]}

EdgePersonFiles ==
    UNION {{[i \in 1..n |-> [authority_id |-> AuthIdOf(i),
                             preferred_label |-> ps[i].preferred_label,
                             variants |-> ps[i].variants]] :
              ps \in [1..n -> EdgeAuthPool]} :
           n \in 0..MaxAuth}

EdgeWikidataExports ==
    UNION {{[i \in 1..n |-> WikidataEntity(QidOf(i), ls[i])] :
              ls \in [1..n -> EdgeWdLabels]} :
           n \in 0..MaxWd}

InitMergeEdge ==
    /\ persons \in EdgePersonFiles
    /\ authority = load_outremer_authority(persons)
    /\ wikidata \in EdgeWikidataExports
    /\ extracted \in SeqsUpTo(EdgeExtPool, MaxExt)
    /\ graphs = <<>>
    /\ index_file = <<>>
    /\ pc = "merge"
    /\ raised = ""
    /\ outremer = <<>>
    /\ lookup = <<>>
    /\ mentions = <<>>
    /\ top_k = 0
    /\ rapidfuzz = FALSE
    /\ links = <<>>
    /\ IdleRest

SpecMergeEdge == InitMergeEdge /\ [][NextMerge]_vars

\* ------------------------------------------------------------------------
\* build_authority_lookup (run_pipeline.py)
\* ------------------------------------------------------------------------
\* e.get(key) or <default>, for a value that is a string
StrOr(e, key, default) ==
    IF key \in DOMAIN e /\ e[key] # <<>> THEN e[key] ELSE default

Whitespace == {" ", "TAB"}

\* "for v in <list>: if isinstance(v, str) and v.strip(): append(v.strip())"
RECURSIVE StrippedNonEmpty(_)
StrippedNonEmpty(vs) ==
    IF vs = <<>> THEN <<>>
    ELSE IF Strip(Head(vs), Whitespace) # <<>>
         THEN <<Strip(Head(vs), Whitespace)>> \o StrippedNonEmpty(Tail(vs))
         ELSE StrippedNonEmpty(Tail(vs))

\* The name representations of one record, in the order they are collected:
\* the label, the variants list, the "normalized" block, the "name" block.
RawVariants(e, label) ==
    LET norm_block == DictGet(e, "normalized", <<>>)
        name_block == DictGet(e, "name_block", <<>>)
    IN <<label>>
       \o StrippedNonEmpty(DictGet(e, "variants", <<>>))
       \o (IF StrOr(norm_block, "preferred", <<>>) # <<>>
           THEN <<norm_block.preferred>> ELSE <<>>)
       \o StrippedNonEmpty(DictGet(norm_block, "variants", <<>>))
       \o (IF StrOr(name_block, "raw", <<>>) # <<>>
           THEN <<name_block.raw>> ELSE <<>>)

\* "Deduplicate normalised forms": first occurrences, the empty form left out
RECURSIVE DedupNorms(_, _)
DedupNorms(all_norms, raw) ==
    IF raw = <<>> THEN all_norms
    ELSE LET n == normalise(Head(raw))
         IN IF n # <<>> /\ n \notin Range(all_norms)
            THEN DedupNorms(Append(all_norms, n), Tail(raw))
            ELSE DedupNorms(all_norms, Tail(raw))

PersonType == <<"p", "e", "r", "s", "o", "n">>

\* The label of a record: preferred_label, or else a "name" that is a string.
RecordLabel(e) == Strip(StrOr(e, "preferred_label", StrOr(e, "name", <<>>)), Whitespace)

RecordId(e) == Strip(StrOr(e, "authority_id", <<>>), Whitespace)

\* "if not auth_id or not label: continue"
SkippedRecord(e) == RecordId(e) = <<>> \/ RecordLabel(e) = <<>>

LookupEntry(e) ==
    [authority_id |-> RecordId(e),
     preferred_label |-> RecordLabel(e),
     type |-> DictGet(e, "type", PersonType),
     all_norms |-> DedupNorms(<<>>, RawVariants(e, RecordLabel(e)))]

\* The loop "for e in entries" of build_authority_lookup.
RECURSIVE BuildEntries(_)
BuildEntries(entries) ==
    IF entries = <<>> THEN <<>>
    ELSE IF SkippedRecord(Head(entries))
         THEN BuildEntries(Tail(entries))
         ELSE <<LookupEntry(Head(entries))>> \o BuildEntries(Tail(entries))

\* A parsed JSON value: an object (dict) or an array (list).
JsonDict(d) == [dict |-> d]
JsonList(l) == [list |-> l]
IsDict(v) == "dict" \in DOMAIN v

\* entries = outremer.get("persons") or outremer.get("entities") or []
Entries(data) ==
    LET ps == DictGet(data.dict, "persons", <<>>)
    IN IF ps # <<>> THEN ps ELSE DictGet(data.dict, "entities", <<>>)

\* (e.get("preferred_label") or e.get("name") or "").strip() on a record
\* without preferred_label whose "name" is a non-empty dict: dict has no
\* strip().
LabelRaises(e) ==
    /\ StrOr(e, "preferred_label", <<>>) = <<>>
    /\ "name_block" \in DOMAIN e

\* The exception build_authority_lookup ends with, "" when it returns:
\* outremer.get on a value that is no dict, or .strip() on a dict.
BuildRaises(data) ==
    IF ~IsDict(data) THEN "AttributeError"
    ELSE IF \E i \in 1..Len(Entries(data)) : LabelRaises(Entries(data)[i])
    THEN "AttributeError"
    ELSE ""

build_authority_lookup(data) == BuildEntries(Entries(data))

\* ------------------------------------------------------------------------
\* Scores.  A float score is the exact fraction n/d it is computed from;
\* round(score, 4) is an integer number of ten-thousandths.
\* ------------------------------------------------------------------------
Frac(n, d) == [n |-> n, d |-> d]
Zero == Frac(0, 1)
One == Frac(1, 1)
FracGT(x, y) == x.n * y.d > y.n * x.d
FracGE(x, y) == x.n * y.d >= y.n * x.d

TenThousand == 10000

\* round(x, 4): to the nearest ten-thousandth, ties to the even one
Round4(x) ==
    LET q == (x.n * TenThousand) \div x.d
        r == (x.n * TenThousand) % x.d
    IN IF 2 * r > x.d \/ (2 * r = x.d /\ q % 2 = 1) THEN q + 1 ELSE q

\* "a in b" on strings
IsSubstring(a, b) ==
    \E i \in 0..(Len(b) - Len(a)) : SubSeq(b, i + 1, i + Len(a)) = a

\* str.split(): the maximal runs of non-whitespace characters
RECURSIVE SplitFrom(_, _, _)
SplitFrom(s, cur, acc) ==
    IF s = <<>> THEN (IF cur = <<>> THEN acc ELSE Append(acc, cur))
    ELSE IF IsSpace(Head(s))
         THEN SplitFrom(Tail(s), <<>>, IF cur = <<>> THEN acc ELSE Append(acc, cur))
         ELSE SplitFrom(Tail(s), Append(cur, Head(s)), acc)

Split(s) == SplitFrom(s, <<>>, <<>>)

\* Code points of the characters of normalised names, for the order of str.
CodePoint(c) ==
    CASE c = "1" -> 49 [] c = "2" -> 50 [] c = "_" -> 95
      [] c = "a" -> 97 [] c = "b" -> 98 [] c = "c" -> 99 [] c = "d" -> 100
      [] c = "e" -> 101 [] c = "h" -> 104 [] c = "j" -> 106 [] c = "n" -> 110
      [] c = "o" -> 111 [] c = "s" -> 115
      [] OTHER -> 0

\* a < b on strings
RECURSIVE StrLess(_, _)
StrLess(a, b) ==
    IF b = <<>> THEN FALSE
    ELSE IF a = <<>> THEN TRUE
    ELSE IF Head(a) = Head(b) THEN StrLess(Tail(a), Tail(b))
    ELSE CodePoint(Head(a)) < CodePoint(Head(b))

\* sorted(tokens)
RECURSIVE InsertToken(_, _)
InsertToken(sorted, t) ==
    IF sorted = <<>> THEN <<t>>
    ELSE IF StrLess(t, Head(sorted)) THEN <<t>> \o sorted
    ELSE <<Head(sorted)>> \o InsertToken(Tail(sorted), t)

RECURSIVE SortTokens(_)
SortTokens(ts) ==
    IF ts = <<>> THEN <<>> ELSE InsertToken(SortTokens(Tail(ts)), Head(ts))

\* " ".join(tokens)
RECURSIVE JoinTokens(_)
JoinTokens(ts) ==
    IF ts = <<>> THEN <<>>
    ELSE IF Len(ts) = 1 THEN Head(ts)
    ELSE Head(ts) \o <<" ">> \o JoinTokens(Tail(ts))

Max(x, y) == IF x >= y THEN x ELSE y
Min(x, y) == IF x <= y THEN x ELSE y

\* One row of the longest-common-subsequence table: row[j + 1] is the length
\* for the characters read so far and the first j characters of b.
RECURSIVE LcsRow(_, _, _, _)
LcsRow(prev, c, b, row) ==
    IF Len(row) = Len(b) + 1 THEN row
    ELSE LET j == Len(row)
         IN LcsRow(prev, c, b,
                   Append(row, IF c = b[j] THEN prev[j] + 1
                               ELSE Max(prev[j + 1], row[j])))

RECURSIVE LcsRows(_, _, _)
LcsRows(a, b, prev) ==
    IF a = <<>> THEN prev[Len(b) + 1]
    ELSE LcsRows(Tail(a), b, LcsRow(prev, Head(a), b, <<0>>))

LcsLen(a, b) == LcsRows(a, b, [j \in 1..(Len(b) + 1) |-> 0])

\* rapidfuzz.fuzz.ratio(a, b) / 100: the normalized Indel similarity
IndelRatio(a, b) ==
    IF Len(a) + Len(b) = 0 THEN One ELSE Frac(2 * LcsLen(a, b), Len(a) + Len(b))

\* rapidfuzz.fuzz.token_sort_ratio(a, b) / 100
TokenSortRatio(a, b) ==
    IndelRatio(JoinTokens(SortTokens(Split(a))), JoinTokens(SortTokens(Split(b))))

\* The fallback of _fuzzy_score: shared tokens over the larger token set
TokenOverlap(a, b) ==
    LET set_a == Range(Split(a))
        set_b == Range(Split(b))
    IN IF set_a = {} \/ set_b = {} THEN Zero
       ELSE Frac(Cardinality(set_a \cap set_b),
                 Max(Cardinality(set_a), Cardinality(set_b)))

_fuzzy_score(a, b, haveRapidfuzz) ==
    IF haveRapidfuzz THEN TokenSortRatio(a, b) ELSE TokenOverlap(a, b)

HighThreshold == 9000
MediumThreshold == 7500
LowThreshold == 6000

\* Mutant of _status: a score of exactly 0.75 is not yet medium.
_status_StrictMedium(score) ==
    IF score >= HighThreshold THEN "high"
    ELSE IF score > MediumThreshold THEN "medium"
    ELSE IF score >= LowThreshold THEN "low"
    ELSE "no_match"

\* _status, on a score in ten-thousandths
_status(score) ==
    IF score >= HighThreshold THEN "high"
    ELSE IF score >= MediumThreshold THEN "medium"
    ELSE IF score >= LowThreshold THEN "low"
    ELSE "no_match"

\* ------------------------------------------------------------------------
\* link_voyagers_to_outremer
\* ------------------------------------------------------------------------
TopKDefault == 3
MinScoreDefault == Frac(3, 5)

\* The loop over entry["all_norms"]: best is (best_score, best_match_type).
RECURSIVE ScoreVariants(_, _, _, _)
ScoreVariants(pnorm, norms, best, haveRapidfuzz) ==
    IF norms = <<>> THEN best
    ELSE LET variant_norm == Head(norms)
         IN IF pnorm = variant_norm
            THEN [score |-> One, match_type |-> "exact"]
            ELSE IF IsSubstring(pnorm, variant_norm) \/ IsSubstring(variant_norm, pnorm)
            THEN LET s == Max(Len(pnorm), Len(variant_norm))
                     m == Min(Len(pnorm), Len(variant_norm))
                     sub_score == IF s > 0 THEN Frac(m, s) ELSE Zero
                 IN ScoreVariants(pnorm, Tail(norms),
                                  IF FracGT(sub_score, best.score)
                                  THEN [score |-> sub_score, match_type |-> "alias"]
                                  ELSE best,
                                  haveRapidfuzz)
            ELSE LET fs == _fuzzy_score(pnorm, variant_norm, haveRapidfuzz)
                 IN ScoreVariants(pnorm, Tail(norms),
                                  IF FracGT(fs, best.score)
                                  THEN [score |-> fs, match_type |-> "fuzzy"]
                                  ELSE best,
                                  haveRapidfuzz)

\* Mutant of ScoreEntry: without the equality test of the loop, equal strings
\* fall to the substring tier.
ScoreEntry_NoExactTier(pnorm, entry, haveRapidfuzz) ==
    LET best == ScoreVariants(pnorm, entry.all_norms,
                              [score |-> Zero, match_type |-> "fuzzy"], haveRapidfuzz)
    IN IF best.match_type = "exact" THEN [best EXCEPT !.match_type = "alias"] ELSE best

ScoreEntry(pnorm, entry, haveRapidfuzz) ==
    ScoreVariants(pnorm, entry.all_norms, [score |-> Zero, match_type |-> "fuzzy"],
                  haveRapidfuzz)

\* "if best_score >= min_score: scored.append(...)"
Qualifies(best, min_score) == FracGE(best.score, min_score)

RECURSIVE ScoreAll(_, _, _, _)
ScoreAll(pnorm, entries, min_score, haveRapidfuzz) ==
    IF entries = <<>> THEN <<>>
    ELSE LET best == ScoreEntry(pnorm, Head(entries), haveRapidfuzz)
             rest == ScoreAll(pnorm, Tail(entries), min_score, haveRapidfuzz)
         IN IF Qualifies(best, min_score)
            THEN <<[score |-> best.score, match_type |-> best.match_type,
                    entry |-> Head(entries)]>> \o rest
            ELSE rest

\* scored.sort(key=score, reverse=True): descending, equal scores in their
\* original order
RECURSIVE InsertScored(_, _)
InsertScored(sorted, x) ==
    IF sorted = <<>> THEN <<x>>
    ELSE IF FracGT(x.score, Head(sorted).score) THEN <<x>> \o sorted
    ELSE <<Head(sorted)>> \o InsertScored(Tail(sorted), x)

RECURSIVE SortScoredFrom(_, _)
SortScoredFrom(sorted, scored) ==
    IF scored = <<>> THEN sorted
    ELSE SortScoredFrom(InsertScored(sorted, Head(scored)), Tail(scored))

SortScored(scored) == SortScoredFrom(<<>>, scored)

\* Mutant of TopCandidates: the ranked list is not cut.
TopCandidates_Uncut(scored, k) == scored

\* scored[:top_k]
TopCandidates(scored, k) == SubSeq(scored, 1, Min(k, Len(scored)))

Candidate(x, pnorm) ==
    [outremer_id |-> x.entry.authority_id,
     outremer_name |-> x.entry.preferred_label,
     type |-> x.entry.type,
     score |-> Round4(x.score),
     match_type |-> x.match_type,
     evidence |-> <<x.match_type, pnorm, x.entry.preferred_label>>]

\* The Link of one mention.  top_candidate is a list of no element (None) or
\* of the one best candidate.
LinkOf(pname, authority_lookup, k, min_score, haveRapidfuzz) ==
    LET pnorm == normalise(pname)
        scored == SortScored(ScoreAll(pnorm, authority_lookup, min_score, haveRapidfuzz))
        top_candidates == TopCandidates(scored, k)
        candidates == [i \in 1..Len(top_candidates) |->
                          Candidate(top_candidates[i], pnorm)]
        confidence == IF candidates # <<>> THEN candidates[1].score ELSE 0
    IN [person |-> pname,
        person_group |-> FALSE,
        candidates |-> candidates,
        top_candidate |-> SubSeq(candidates, 1, Min(1, Len(candidates))),
        confidence |-> confidence,
        status |-> IF candidates # <<>> THEN _status(confidence) ELSE "no_match"]

\* pname = (p.get("name") or "").strip()
MentionName(p) == Strip(StrOr(p, "name", <<>>), Whitespace)

RECURSIVE AllLinks(_, _, _, _, _)
AllLinks(ps, authority_lookup, k, min_score, haveRapidfuzz) ==
    IF ps = <<>> THEN <<>>
    ELSE LET rest == AllLinks(Tail(ps), authority_lookup, k, min_score, haveRapidfuzz)
         IN IF MentionName(Head(ps)) = <<>> THEN rest
            ELSE <<LinkOf(MentionName(Head(ps)), authority_lookup, k, min_score,
                          haveRapidfuzz)>> \o rest

NoneId == <<"_", "_", "n", "o", "n", "e", "_", "_">>

\* key = (link["person"], top["outremer_id"] if top else "__none__")
DedupKey(link) ==
    <<link.person,
      IF link.top_candidate # <<>> THEN link.top_candidate[1].outremer_id ELSE NoneId>>

\* Mutant of Deduplicate: every link is kept.
Deduplicate_KeepsAll(deduped, ls) == deduped \o ls

\* The de-duplication loop: a link of a key seen before replaces the kept one
\* when its confidence is higher, and is dropped otherwise.
RECURSIVE Deduplicate(_, _)
Deduplicate(deduped, ls) ==
    IF ls = <<>> THEN deduped
    ELSE LET link == Head(ls)
             seen == {i \in 1..Len(deduped) : DedupKey(deduped[i]) = DedupKey(link)}
         IN IF seen # {}
            THEN LET at == CHOOSE i \in seen : TRUE
                 IN IF link.confidence > deduped[at].confidence
                    THEN Deduplicate([deduped EXCEPT ![at] = link], Tail(ls))
                    ELSE Deduplicate(deduped, Tail(ls))
            ELSE Deduplicate(Append(deduped, link), Tail(ls))

link_voyagers_to_outremer(ps, authority_lookup, k, min_score, haveRapidfuzz) ==
    Deduplicate(<<>>, AllLinks(ps, authority_lookup, k, min_score, haveRapidfuzz))

\* ------------------------------------------------------------------------
\* Inputs of the linker
\* ------------------------------------------------------------------------
NameAB == <<"a", " ", "b">>
NameBA == <<"B", " ", "a">>
NameABC == <<"a", "b", "c">>
NameABCD == <<"A", "b", "c", "d">>
LowerABCD == <<"a", "b", "c", "d">>
Dash == <<"-">>
Blank == <<" ">>

\* Index records of the shapes the builder reads: a label alone, a label with
\* a flat variants list, a label with a "normalized" block, and a record
\* without authority_id.
RecordPool ==
    {[preferred_label |-> NameAB],
     [preferred_label |-> NameBA, variants |-> <<LowerABCD, Blank>>],
     [preferred_label |-> NameABCD,
      normalized |-> [preferred |-> LowerABCD, variants |-> <<NameABC>>]],
     [preferred_label |-> NameABCD, authority_id |-> <<>>]}

\* A record of the pool at position i of the index: its authority_id, unless
\* the record states it has none, is AUTH:<i>.
RecordAt(r, i) ==
    IF "authority_id" \in DOMAIN r THEN r ELSE ("authority_id" :> AuthIdOf(i)) @@ r

Indexes ==
    UNION {{[i \in 1..n |-> RecordAt(rs[i], i)] : rs \in [1..n -> RecordPool]} :
           n \in 0..MaxEntries}

\* What the path of the index holds: no file, text that is no JSON, or a
\* JSON value.
MissingFile == [kind |-> "missing"]
InvalidJson == [kind |-> "invalid"]
IndexFile(data) == [kind |-> "json", value |-> data]

MentionPool == {[name |-> NameBA], [name |-> NameABC], [name |-> Dash], [name |-> Blank]}

InitLink ==
    /\ outremer \in {JsonDict([persons |-> ix]) : ix \in Indexes}
    /\ index_file = IndexFile(outremer)
    /\ pc = "link"
    /\ raised = ""
    /\ lookup = build_authority_lookup(outremer)
    /\ mentions \in SeqsUpTo(MentionPool, MaxMentions)
    /\ top_k \in 1..TopKDefault
    /\ rapidfuzz \in BOOLEAN
    /\ links = <<>>
    /\ persons = <<>>
    /\ authority = <<>>
    /\ wikidata = <<>>
    /\ extracted = <<>>
    /\ graphs = <<>>
    /\ IdleRest

\* links = link_voyagers_to_outremer(persons, authority_lookup, top_k), once
\* for the mentions of a document
LinkCall ==
    /\ pc = "link"
    /\ raised = ""
    /\ pc' = "done"
    /\ links' = <<link_voyagers_to_outremer(mentions, lookup, top_k, MinScoreDefault,
                                            rapidfuzz)>>
    /\ UNCHANGED <<index_file, raised, outremer, lookup, mentions, top_k, rapidfuzz,
                   mergeVars, restVars>>

NextLink == LinkCall

SpecLink == InitLink /\ [][NextLink]_vars

\* ------------------------------------------------------------------------
\* A run of run_pipeline's main: load the index, build the lookup, link the
\* mentions of a document
\* ------------------------------------------------------------------------
\* load_outremer_index: the value it returns, for a path that holds no file
\* or a JSON value.
load_outremer_index(file) ==
    IF file.kind = "missing"
    THEN JsonDict([entities |-> <<>>, persons |-> <<>>])
    ELSE file.value

\* json.loads on text that is no JSON
LoadRaises(file) == IF file.kind = "invalid" THEN "JSONDecodeError" ELSE ""

\* Source records of the index: with and without label and id, with a flat
\* variants list, a "normalized" block and a "name" block.
RunRecordPool ==
    {[preferred_label |-> NameAB],
     [preferred_label |-> NameBA, variants |-> <<LowerABCD, Blank>>,
      name_block |-> [raw |-> NameABC]],
     [preferred_label |-> NameABCD, authority_id |-> <<>>,
      normalized |-> [preferred |-> LowerABCD, variants |-> <<NameABC>>]],
     [variants |-> <<NameABC>>],
     [normalized |-> [preferred |-> LowerABCD]],
     [name_block |-> [raw |-> NameAB]]}

RunIndexes ==
    UNION {{[i \in 1..n |-> RecordAt(rs[i], i)] : rs \in [1..n -> RunRecordPool]} :
           n \in 0..MaxEntries}

IndexFiles ==
    {MissingFile, InvalidJson, IndexFile(JsonList(<<>>)), IndexFile(JsonDict(<<>>))}
    \cup {IndexFile(JsonDict([persons |-> ix])) : ix \in RunIndexes \ {<<>>}}
    \cup {IndexFile(JsonDict([entities |-> <<RecordAt([preferred_label |-> NameAB], 1)>>]))}

RunMentionPool == {[name |-> NameBA], [name |-> Blank]}

InitRun ==
    /\ index_file \in IndexFiles
    /\ pc = "load"
    /\ raised = ""
    /\ outremer = JsonDict(<<>>)
    /\ lookup = <<>>
    /\ mentions \in SeqsUpTo(RunMentionPool, MaxMentions)
    /\ top_k = TopKDefault
    /\ rapidfuzz \in BOOLEAN
    /\ links = <<>>
    /\ persons = <<>>
    /\ authority = <<>>
    /\ wikidata = <<>>
    /\ extracted = <<>>
    /\ graphs = <<>>
    /\ IdleRest

\* outremer_index = load_outremer_index(outremer_path)
LoadIndex ==
    /\ pc = "load"
    /\ raised = ""
    /\ IF LoadRaises(index_file) # ""
       THEN /\ raised' = LoadRaises(index_file)
            /\ UNCHANGED <<pc, outremer>>
       ELSE /\ outremer' = load_outremer_index(index_file)
            /\ pc' = "build"
            /\ UNCHANGED raised
    /\ UNCHANGED <<index_file, lookup, mentions, top_k, rapidfuzz, links, mergeVars,
                   restVars>>

\* authority_lookup = build_authority_lookup(outremer_index)
BuildLookup ==
    /\ pc = "build"
    /\ raised = ""
    /\ IF BuildRaises(outremer) # ""
       THEN /\ raised' = BuildRaises(outremer)
            /\ UNCHANGED <<pc, lookup>>
       ELSE /\ lookup' = build_authority_lookup(outremer)
            /\ pc' = "link"
            /\ UNCHANGED raised
    /\ UNCHANGED <<index_file, outremer, mentions, top_k, rapidfuzz, links, mergeVars,
                   restVars>>

NextRun == LoadIndex \/ BuildLookup \/ LinkCall

SpecRun == InitRun /\ [][NextRun]_vars

\* ------------------------------------------------------------------------
\* normalise applied to a string, and again to its own result
\* ------------------------------------------------------------------------
NormChars == {"a", "B", "E_ACUTE", "COMB_ACUTE", "-", " ", "TAB"}

IdleMerge ==
    /\ persons = <<>>
    /\ authority = <<>>
    /\ wikidata = <<>>
    /\ extracted = <<>>
    /\ graphs = <<>>

IdleLink ==
    /\ index_file = <<>>
    /\ pc = "idle"
    /\ raised = ""
    /\ outremer = <<>>
    /\ lookup = <<>>
    /\ mentions = <<>>
    /\ top_k = 0
    /\ rapidfuzz = FALSE
    /\ links = <<>>

InitNorm ==
    /\ norm_in \in SeqsUpTo(NormChars, MaxLen)
    /\ norm_out = <<>>
    /\ IdleMerge
    /\ IdleLink
    /\ IdlePerson
    /\ IdleRecon
    /\ IdleExtra

\* n = normalise(s)
Normalise ==
    /\ Len(norm_out) = 0
    /\ norm_out' = <<normalise(norm_in)>>
    /\ UNCHANGED <<norm_in, mergeVars, linkVars, personVars, reconVars, extraVars>>

\* normalise(n), on the result of the first call
NormaliseAgain ==
    /\ Len(norm_out) = 1
    /\ norm_out' = Append(norm_out, normalise(norm_out[1]))
    /\ UNCHANGED <<norm_in, mergeVars, linkVars, personVars, reconVars, extraVars>>

NextNorm == Normalise \/ NormaliseAgain

SpecNorm == InitNorm /\ [][NextNorm]_vars

\* ------------------------------------------------------------------------
\* wikidata_reconcile.py: reconcile_person.  A year is a list of no element
\* (None) or of one integer; a score is an integer number of thousandths.
\* ------------------------------------------------------------------------
MEDIEVAL_CUTOFF_YEAR == 1500

NoYear == <<>>
Known(year) == year # NoYear
\* "if birth_year": a year that is not None and not 0
Truthy(year) == Known(year) /\ year[1] # 0

is_medieval_person(birth_year, death_year) ==
    IF ~Known(birth_year) /\ ~Known(death_year) THEN TRUE
    ELSE IF Truthy(birth_year) /\ birth_year[1] <= MEDIEVAL_CUTOFF_YEAR THEN TRUE
    ELSE IF Truthy(death_year) /\ death_year[1] <= MEDIEVAL_CUTOFF_YEAR THEN TRUE
    ELSE IF Truthy(birth_year) /\ Truthy(death_year)
            /\ birth_year[1] > MEDIEVAL_CUTOFF_YEAR
    THEN FALSE
    ELSE TRUE

\* normalise of wikidata_reconcile.py: no punctuation step
NormaliseWd(s) == Strip(LowerStr(CollapseSpace(DropCombining(NFKD(s)))), {" ", "TAB"})

\* Words of a description that DESCRIPTION_WHITELIST_RE and the pattern of
\* modern entities match.
WhitelistWords == {"king", "knight", "queen"}
ModernWords == {"politician", "actor", "athlete"}

LabelMatch == 500
LabelContained == 300
DescriptionBonus == 400
ModernPenalty == 500
FullScore == 1000

\* score_candidate, rounded to thousandths
score_candidate(name, cand) ==
    LET label == NormaliseWd(cand.label)
        pname == NormaliseWd(name)
        fromLabel == IF label = pname THEN LabelMatch
                     ELSE IF IsSubstring(pname, label) \/ IsSubstring(label, pname)
                     THEN LabelContained ELSE 0
        fromDesc == IF Range(cand.description) \cap WhitelistWords # {}
                    THEN DescriptionBonus ELSE 0
        penalty == IF Range(cand.description) \cap ModernWords # {}
                   THEN ModernPenalty ELSE 0
    IN Max(0, Min(FullScore, fromLabel + fromDesc - penalty))

EntityUrl(qid) == <<"https://www.wikidata.org/wiki/">> \o qid

StartsWithQ(qid) == qid # <<>> /\ Head(qid) = "Q"

\* Mutant of KeptResults: a candidate is filtered as soon as its birth year
\* is after the cutoff.
RECURSIVE KeptResults_BirthOnly(_, _, _)
KeptResults_BirthOnly(name, results, dates) ==
    IF results = <<>> THEN <<>>
    ELSE LET r == Head(results)
             qid == DictGet(r, "id", <<>>)
             rest == KeptResults_BirthOnly(name, Tail(results), dates)
         IN IF ~StartsWithQ(qid) THEN rest
            ELSE IF Truthy(dates[qid].birth) /\ dates[qid].birth[1] > MEDIEVAL_CUTOFF_YEAR
            THEN rest
            ELSE <<[qid |-> qid,
                    label |-> DictGet(r, "label", <<>>),
                    description |-> DictGet(r, "description", <<>>),
                    url |-> EntityUrl(qid),
                    score |-> score_candidate(name, r),
                    birth_year |-> dates[qid].birth,
                    death_year |-> dates[qid].death]>> \o rest

\* The loop over the search results: dates[qid] is what get_person_dates
\* returns for the entity.
RECURSIVE KeptResults(_, _, _)
KeptResults(name, results, dates) ==
    IF results = <<>> THEN <<>>
    ELSE LET r == Head(results)
             qid == DictGet(r, "id", <<>>)
             rest == KeptResults(name, Tail(results), dates)
         IN IF ~StartsWithQ(qid) THEN rest
            ELSE IF ~is_medieval_person(dates[qid].birth, dates[qid].death) THEN rest
            ELSE <<[qid |-> qid,
                    label |-> DictGet(r, "label", <<>>),
                    description |-> DictGet(r, "description", <<>>),
                    url |-> EntityUrl(qid),
                    score |-> score_candidate(name, r),
                    birth_year |-> dates[qid].birth,
                    death_year |-> dates[qid].death]>> \o rest

\* candidates.sort(key=score, reverse=True): descending, equal scores in
\* their original order
RECURSIVE InsertByScore(_, _)
InsertByScore(sorted, x) ==
    IF sorted = <<>> THEN <<x>>
    ELSE IF x.score > Head(sorted).score THEN <<x>> \o sorted
    ELSE <<Head(sorted)>> \o InsertByScore(Tail(sorted), x)

RECURSIVE SortByScore(_, _)
SortByScore(sorted, cands) ==
    IF cands = <<>> THEN sorted
    ELSE SortByScore(InsertByScore(sorted, Head(cands)), Tail(cands))

\* reconcile_person: search is what wd_search_humans does for the name, an
\* exception or a list of results.
reconcile_person(name, limit, search, dates) ==
    IF search.raises THEN <<>>
    ELSE LET candidates == SortByScore(<<>>, KeptResults(name, search.results, dates))
         IN SubSeq(candidates, 1, Min(limit, Len(candidates)))

\* ------------------------------------------------------------------------
\* Inputs of reconcile_person
\* ------------------------------------------------------------------------
AnnLee == <<"A", "n", "n", " ", "L", "e", "e">>

ResultPool ==
    {[id |-> QidOf(1), label |-> Ann, description |-> <<"king">>],
     [id |-> QidOf(2), label |-> AnnLee, description |-> <<"politician">>],
     [id |-> <<"P", "3">>, label |-> Ann, description |-> <<>>]}

Years == {NoYear, <<0>>, <<MEDIEVAL_CUTOFF_YEAR>>, <<MEDIEVAL_CUTOFF_YEAR + 1>>}

DatePairs == [birth : Years, death : Years]

SearchOutcomes ==
    {[raises |-> TRUE, results |-> <<>>]}
    \cup {[raises |-> FALSE, results |-> rs] : rs \in SeqsUpTo(ResultPool, MaxResults)}

LimitDefault == 3

InitPerson ==
    /\ rp_in \in [name : {Ann}, limit : {1, LimitDefault}, search : SearchOutcomes,
                  dates : [{QidOf(1), QidOf(2)} -> DatePairs]]
    /\ rp_out = <<>>
    /\ IdleMerge
    /\ IdleLink
    /\ IdleNorm
    /\ IdleRecon
    /\ IdleExtra

\* candidates = reconcile_person(person, limit=limit)
ReconcilePerson ==
    /\ rp_out = <<>>
    /\ rp_out' = <<reconcile_person(rp_in.name, rp_in.limit, rp_in.search, rp_in.dates)>>
    /\ UNCHANGED <<rp_in, mergeVars, linkVars, normVars, reconVars, extraVars>>

NextPerson == ReconcilePerson

SpecPerson == InitPerson /\ [][NextPerson]_vars

\* ------------------------------------------------------------------------
\* wikidata_reconcile.py: run.  One step per document entered and per
\* unmatched link handled; the cache file is written when the run ends.
\* ------------------------------------------------------------------------
\* no_matches of a document
RECURSIVE NoMatches(_)
NoMatches(lnks) ==
    IF lnks = <<>> THEN <<>>
    ELSE IF DictGet(Head(lnks), "status", <<>>) = "no_match"
         THEN <<Head(lnks)>> \o NoMatches(Tail(lnks))
         ELSE NoMatches(Tail(lnks))

DocLinks(doc) == NoMatches(DictGet(doc, "links", <<>>))

\* person = lnk.get("person", "").strip()
LinkPerson(lnk) == Strip(DictGet(lnk, "person", <<>>), Whitespace)

MinPersonLen == 3

\* "if not person or len(person) < 3: continue" and "Skip collectives"
SkippedLink(lnk) ==
    \/ LinkPerson(lnk) = <<>>
    \/ Len(LinkPerson(lnk)) < MinPersonLen
    \/ DictGet(lnk, "person_group", FALSE)

\* Mutant of Cached: no key is ever found in the cache.
Cached_Never(cache, doc_id, key) == FALSE

\* "if key in existing[doc_id]"
Cached(cache, doc_id, key) == key \in DOMAIN cache[doc_id]

\* The entry stored for a person queried: queried_at is the time of the
\* query, the number of queries made before it.
CacheEntry(person, candidates, now) ==
    [person |-> person, candidates |-> candidates, queried_at |-> now]

\* existing loaded from the cache file: {} when there is none
LoadExisting(file) == IF file.kind = "json" THEN file.value ELSE <<>>

\* ------------------------------------------------------------------------
\* Inputs of run
\* ------------------------------------------------------------------------
DocIdOf(i) == <<"d", IF i = 1 THEN "1" ELSE "2">>

LinkPool ==
    {[person |-> Ann, status |-> "no_match", person_group |-> FALSE],
     [person |-> AccentedAnn \o <<" ">>, status |-> "no_match", person_group |-> FALSE],
     [person |-> Jo, status |-> "no_match", person_group |-> FALSE],
     [person |-> John, status |-> "high", person_group |-> FALSE]}

\* The second document of site/data, when there is one.
SecondDoc ==
    [doc_id |-> DocIdOf(2),
     links |-> <<[person |-> Ann, status |-> "no_match", person_group |-> FALSE]>>]

DocSets ==
    {<<[doc_id |-> DocIdOf(1), links |-> ls]>> \o rest :
        ls \in SeqsUpTo(LinkPool, MaxLinks), rest \in {<<>>, <<SecondDoc>>}}

\* What Wikidata answers a search during a run, and the years it holds.
RunSearches ==
    {[raises |-> TRUE, results |-> <<>>],
     [raises |-> FALSE,
      results |-> <<[id |-> QidOf(1), label |-> Ann, description |-> <<"king">>]>>]}

\* What Wikidata answers a date lookup: an error (network, timeout or a
\* reply that does not parse), or the years of the entity.
RunDateReplies ==
    {[raises |-> TRUE, birth |-> NoYear, death |-> NoYear],
     [raises |-> FALSE, birth |-> <<MEDIEVAL_CUTOFF_YEAR>>, death |-> NoYear],
     [raises |-> FALSE, birth |-> <<MEDIEVAL_CUTOFF_YEAR + 1>>,
      death |-> <<MEDIEVAL_CUTOFF_YEAR + 1>>]}

\* Mutant of get_person_dates: a failed lookup is reported as years after
\* the cutoff.
get_person_dates_FailureIsModern(reply) ==
    IF reply.raises
    THEN [birth |-> <<MEDIEVAL_CUTOFF_YEAR + 1>>, death |-> <<MEDIEVAL_CUTOFF_YEAR + 1>>]
    ELSE [birth |-> reply.birth, death |-> reply.death]

\* get_person_dates: "except Exception ... return None, None"
get_person_dates(reply) ==
    IF reply.raises THEN [birth |-> NoYear, death |-> NoYear]
    ELSE [birth |-> reply.birth, death |-> reply.death]

RunDates(reply) == [q \in {QidOf(1)} |-> get_person_dates(reply)]

\* seconds between requests, in milliseconds
WD_API_DELAY == 500

\* The date lookups reconcile_person makes for the results of a search, one
\* urlopen for each result whose id starts with Q.
RECURSIVE DateCalls(_, _)
DateCalls(results, reply) ==
    IF results = <<>> THEN <<>>
    ELSE IF StartsWithQ(DictGet(Head(results), "id", <<>>))
         THEN <<[kind |-> "dates", raised |-> reply.raises]>>
              \o DateCalls(Tail(results), reply)
         ELSE DateCalls(Tail(results), reply)

\* The network calls of one reconcile_person: wd_search_humans opens the
\* search URL once, and each result kept so far has its dates looked up.
NetworkCalls(search, reply) ==
    <<[kind |-> "search", raised |-> search.raises]>>
    \o (IF search.raises THEN <<>> ELSE DateCalls(search.results, reply))

\* The calls as the run's log records them: whom they were for and when.
Stamped(calls, run, doc_id, key, now) ==
    [i \in 1..Len(calls) |->
        [kind |-> calls[i].kind, raised |-> calls[i].raised,
         run |-> run, doc_id |-> doc_id, key |-> key, at |-> now]]

InitReconcile ==
    /\ rc_docs \in DocSets
    /\ rc_file = MissingFile
    /\ existing = <<>>
    /\ rc_pc = [runs |-> 0, running |-> FALSE, doc |-> 0, link |-> 0]
    /\ rc_queries = {}
    /\ rc_edited = FALSE
    /\ rc_calls = <<>>
    /\ rc_clock = 0
    /\ IdleMerge
    /\ IdleLink
    /\ IdleNorm
    /\ IdlePerson
    /\ IdleExtra

\* run starts: "Load existing matches to avoid re-querying"
StartRun ==
    /\ ~rc_pc.running
    /\ rc_pc.runs < MaxRuns
    /\ existing' = LoadExisting(rc_file)
    /\ rc_pc' = [rc_pc EXCEPT !.running = TRUE, !.doc = 1, !.link = 0]
    /\ UNCHANGED <<rc_docs, rc_file, rc_queries, rc_edited, rc_calls, rc_clock,
                   mergeVars, linkVars, normVars, personVars, extraVars>>

\* "for doc_path in doc_files": the document's dict is created when missing,
\* and a document without unmatched links is passed over.
EnterDoc ==
    /\ rc_pc.running
    /\ rc_pc.link = 0
    /\ rc_pc.doc <= Len(rc_docs)
    /\ LET doc == rc_docs[rc_pc.doc]
       IN /\ existing' = IF doc.doc_id \in DOMAIN existing THEN existing
                         ELSE DictPut(existing, doc.doc_id, <<>>)
          /\ rc_pc' = IF DocLinks(doc) = <<>>
                      THEN [rc_pc EXCEPT !.doc = @ + 1]
                      ELSE [rc_pc EXCEPT !.link = 1]
    /\ UNCHANGED <<rc_docs, rc_file, rc_queries, rc_edited, rc_calls, rc_clock,
                   mergeVars, linkVars, normVars, personVars, extraVars>>

\* "for lnk in no_matches": a link is skipped, or found in the cache, or
\* reconcile_person is called and its result stored.
ProcessLink ==
    /\ rc_pc.running
    /\ rc_pc.link >= 1
    /\ LET doc == rc_docs[rc_pc.doc]
           lnk == DocLinks(doc)[rc_pc.link]
           person == LinkPerson(lnk)
           key == NormaliseWd(person)
       IN /\ IF SkippedLink(lnk) \/ Cached(existing, doc.doc_id, key)
             THEN UNCHANGED <<existing, rc_queries, rc_calls, rc_clock>>
             ELSE \E search \in RunSearches, reply \in RunDateReplies :
                     /\ rc_calls' = rc_calls \o
                           Stamped(NetworkCalls(search, reply), rc_pc.runs + 1,
                                   doc.doc_id, key, rc_clock)
                     /\ rc_clock' = rc_clock + WD_API_DELAY
                     /\ existing' =
                           DictPut(existing, doc.doc_id,
                                   DictPut(existing[doc.doc_id], key,
                                           CacheEntry(person,
                                                      reconcile_person(person, LimitDefault,
                                                                       search, RunDates(reply)),
                                                      Cardinality(rc_queries))))
                     /\ rc_queries' = rc_queries
                           \cup {[run |-> rc_pc.runs + 1, doc_id |-> doc.doc_id,
                                  key |-> key]}
          /\ rc_pc' = IF rc_pc.link = Len(DocLinks(doc))
                      THEN [rc_pc EXCEPT !.doc = @ + 1, !.link = 0]
                      ELSE [rc_pc EXCEPT !.link = @ + 1]
    /\ UNCHANGED <<rc_docs, rc_file, rc_edited, mergeVars, linkVars, normVars, personVars, extraVars>>

\* out_file.write_text(json.dumps(existing)): a dict of str keys, lists,
\* strings, numbers and None is read back as it was written.
FinishRun ==
    /\ rc_pc.running
    /\ rc_pc.link = 0
    /\ rc_pc.doc = Len(rc_docs) + 1
    /\ rc_file' = IndexFile(existing)
    /\ rc_pc' = [runs |-> rc_pc.runs + 1, running |-> FALSE, doc |-> 0, link |-> 0]
    /\ rc_edited' = FALSE
    /\ UNCHANGED <<rc_docs, existing, rc_queries, rc_calls, rc_clock,
                   mergeVars, linkVars, normVars, personVars, extraVars>>

\* Between two runs the pipeline adds a document to site/data.
EditDocuments ==
    /\ ~rc_pc.running
    /\ rc_pc.runs >= 1
    /\ Len(rc_docs) = 1
    /\ rc_docs' = Append(rc_docs, SecondDoc)
    /\ rc_edited' = TRUE
    /\ UNCHANGED <<rc_file, existing, rc_pc, rc_queries, rc_calls, rc_clock,
                   mergeVars, linkVars, normVars, personVars, extraVars>>

NextReconcile == StartRun \/ EnterDoc \/ ProcessLink \/ FinishRun \/ EditDocuments

SpecReconcile == InitReconcile /\ [][NextReconcile]_vars

\* ------------------------------------------------------------------------
\* The normalisers of the scripts, on a pair of names.  normalise of
\* build_unified_kg.py and run_pipeline.py is normalise above, normalise of
\* wikidata_reconcile.py is NormaliseWd.
\* ------------------------------------------------------------------------
\* _normalise of extract_persons_google.py:
\* "Lowercase + strip accents + collapse whitespace"
_normalise(s) == Strip(LowerStr(CollapseSpace(DropCombining(NFKD(s)))), {" ", "TAB"})

KeyChars == {"a", "E_ACUTE", "-", " "}

InitKeys ==
    /\ key_in \in SeqsUpTo(KeyChars, MaxLen - 1) \X SeqsUpTo(KeyChars, MaxLen - 1)
    /\ key_out = <<>>
    /\ IdleMerge
    /\ IdleLink
    /\ IdleNorm
    /\ IdlePerson
    /\ IdleRecon
    /\ IdleStaging

\* Each component keys the two names.
KeyNames ==
    /\ key_out = <<>>
    /\ key_out' = [linker |-> <<normalise(key_in[1]), normalise(key_in[2])>>,
                   cache |-> <<NormaliseWd(key_in[1]), NormaliseWd(key_in[2])>>,
                   dedup |-> <<_normalise(key_in[1]), _normalise(key_in[2])>>]
    /\ UNCHANGED <<key_in, mergeVars, linkVars, normVars, personVars, reconVars,
                   stagingVars>>

NextKeys == KeyNames

SpecKeys == InitKeys /\ [][NextKeys]_vars

\* ------------------------------------------------------------------------
\* process_staged.py: the staging queue
\* ------------------------------------------------------------------------
MaxItems == 2

ItemIdOf(i) == <<"item", i>>
StagedNameOf(i) == <<"upload", i>>
Originals == {"x.pdf", "y.pdf"}

\* find_item
FindItem(items, item_id) == {i \in DOMAIN items : items[i].id = item_id}

\* The return codes of the pipeline subprocess.
PipelineCodes == {0, 1}

\* A file name of data/raw: a timestamp prefix, 0 for none, and a name.
RawName(prefix, name) == <<prefix, name>>

\* "If a file with that name already exists, prefix with timestamp": the
\* timestamp is the time of the command.
DestOf(item, files, now) ==
    IF RawName(0, item.original) \in files
    THEN RawName(now, item.original) ELSE RawName(0, item.original)

\* item["status"] = "processed" and the fields set with it
ProcessedItem(item, dest) ==
    [x \in DOMAIN item \cup {"raw_file"} |->
        IF x = "status" THEN "processed"
        ELSE IF x = "raw_file" THEN dest
        ELSE item[x]]

\* item["status"] = "rejected"
RejectedItem(item) == [item EXCEPT !.status = "rejected"]

InitStaging ==
    /\ \E n \in 1..MaxItems : \E os \in [1..n -> Originals] :
          queue = [i \in 1..n |->
                      [id |-> ItemIdOf(i), filename |-> StagedNameOf(i),
                       original |-> os[i], status |-> "pending"]]
    /\ staging \in SUBSET {queue[i].filename : i \in DOMAIN queue}
    /\ raw_dir \in {{}, {RawName(0, "x.pdf")}}
    /\ pipeline = <<>>
    /\ IdleMerge
    /\ IdleLink
    /\ IdleNorm
    /\ IdlePerson
    /\ IdleRecon
    /\ IdleKeys

\* cmd_process(item_id): the command exits early for an unknown id, an item
\* that is not pending or a staged file that is gone; otherwise the file is
\* moved, the queue saved with the item processed, and the pipeline run.
CmdProcess ==
    \E item_id \in {ItemIdOf(i) : i \in 1..MaxItems}, returncode \in PipelineCodes :
        /\ IF \/ FindItem(queue, item_id) = {}
              \/ \E i \in FindItem(queue, item_id) :
                    \/ queue[i].status # "pending"
                    \/ queue[i].filename \notin staging
           THEN UNCHANGED stagingVars
           ELSE LET i == CHOOSE k \in FindItem(queue, item_id) :
                             \A m \in FindItem(queue, item_id) : k <= m
                    dest == DestOf(queue[i], raw_dir, Len(pipeline) + 1)
                IN /\ staging' = staging \ {queue[i].filename}
                   /\ raw_dir' = raw_dir \cup {dest}
                   /\ queue' = [queue EXCEPT ![i] = ProcessedItem(queue[i], dest)]
                   /\ pipeline' = Append(pipeline,
                                         [id |-> item_id, returncode |-> returncode])
        /\ UNCHANGED <<mergeVars, linkVars, normVars, personVars, reconVars, keyVars>>

\* cmd_reject(item_id): the staged file is deleted when it is there and the
\* item marked rejected, whatever its status was.
CmdReject ==
    \E item_id \in {ItemIdOf(i) : i \in 1..MaxItems} :
        /\ IF FindItem(queue, item_id) = {}
           THEN UNCHANGED stagingVars
           ELSE LET i == CHOOSE k \in FindItem(queue, item_id) :
                             \A m \in FindItem(queue, item_id) : k <= m
                IN /\ staging' = staging \ {queue[i].filename}
                   /\ queue' = [queue EXCEPT ![i] = RejectedItem(queue[i])]
                   /\ UNCHANGED <<raw_dir, pipeline>>
        /\ UNCHANGED <<mergeVars, linkVars, normVars, personVars, reconVars, keyVars>>

NextStaging == CmdProcess \/ CmdReject

SpecStaging == InitStaging /\ [][NextStaging]_vars

\* ------------------------------------------------------------------------
\* Vocabulary of the merger's properties
\* ------------------------------------------------------------------------
\* A call of match_persons returns in this step; Returned is its graph.
MatchStep == Len(graphs') = Len(graphs) + 1
Returned == graphs'[Len(graphs')]

AuthIds == {authority[i].id : i \in 1..Len(authority)}
WdNorm(i) == normalise(wikidata[i].preferred_label)
WdQid(i) == wikidata[i].identifiers.wikidata_qid
WdKey(i) == WikidataPrefix \o WdQid(i)

\* The authority ids whose entity carries the normalized name.
Carriers(norm) ==
    {authority[i].id : i \in {j \in 1..Len(authority) :
                                 norm \in Range(authority[j].names.normalized)}}

\* The entity of the authority dict under an id, before the step.
AuthEntity(a) == CHOOSE e \in Range(authority) : e.id = a

WithoutItem(s, i) == SubSeq(s, 1, i - 1) \o SubSeq(s, i + 1, Len(s))

HasWikidataSource(e) == \E k \in 1..Len(e.sources) : e.sources[k].type = "wikidata"

\* The records that the reverse index maps to exactly the authority id a.
IndexMatches(a) ==
    {i \in 1..Len(wikidata) :
        /\ UniqueAuthMatch(AuthByNormalized(authority), WdNorm(i))
        /\ AuthByNormalized(authority)[WdNorm(i)][1] = a}

\* C1: a Wikidata record whose normalized label the reverse index maps to
\* exactly one authority id (the only record mapped to that id) is folded
\* into that entity: the entity gets the QID and exactly one more provenance
\* entry, no WIKIDATA:<qid> entity exists, and the graph has as many entities
\* as the graph of the same call without the record.
C1_UniqueMatchIsFolded ==
    [][MatchStep =>
        \A a \in AuthIds : \A i \in 1..Len(wikidata) :
            IndexMatches(a) = {i}
            => LET without == match_persons(authority, WithoutItem(wikidata, i),
                                            extracted).unified
               IN /\ DictGet(Returned[a].identifiers, "wikidata_qid", PyNone) = WdQid(i)
                  /\ Len(Returned[a].sources) = Len(AuthEntity(a).sources) + 1
                  /\ WdKey(i) \notin DOMAIN Returned
                  /\ Cardinality(DOMAIN Returned) = Cardinality(DOMAIN without)]_vars

\* C2: two calls of match_persons in succession on the same inputs return the
\* same graph: the same keys and an equal entity under every key.
C2_SecondCallSameGraph ==
    \A m, n \in 1..Len(graphs) : graphs[m] = graphs[n]

\* The properties below are stated of the graph of the latest call, n being
\* the number of calls so far: every returned graph is the latest in the
\* state its call leads to.

\* The number of provenance entries of type wikidata of an entity.
WikidataSources(e) == Cardinality({k \in 1..Len(e.sources) : e.sources[k].type = "wikidata"})

\* The records whose normalized label is carried by the authority entity a
\* and by no other.
SingleCarrierMatches(a) == {i \in 1..Len(wikidata) : Carriers(WdNorm(i)) = {a}}

\* C3: a Wikidata record whose normalized label is carried by two or more
\* authority entities, or by none, is merged into no authority entity: none
\* holds its QID, and after n calls an authority entity has at most n wikidata
\* provenance entries for each record whose label it alone carries, so none
\* for such a record; the record is in the graph as its own entity
\* WIKIDATA:<qid>.
C3_AmbiguousOrUnknownStaysApart ==
    \A n \in {Len(graphs)} \ {0} :
        /\ \A a \in AuthIds :
              WikidataSources(graphs[n][a]) <= n * Cardinality(SingleCarrierMatches(a))
        /\ \A i \in 1..Len(wikidata) :
              Cardinality(Carriers(WdNorm(i))) # 1
              => /\ \A a \in AuthIds :
                       DictGet(graphs[n][a].identifiers, "wikidata_qid", PyNone) # WdQid(i)
                 /\ WdKey(i) \in DOMAIN graphs[n]
                 /\ graphs[n][WdKey(i)] = wikidata[i]

\* A call has returned for inputs in which two authority entities carry the
\* normalized label of a Wikidata record.
C3_Witness ==
    /\ Len(graphs) >= 1
    /\ \E i \in 1..Len(wikidata) :
          /\ Cardinality(Carriers(WdNorm(i))) >= 2
          /\ WdKey(i) \in DOMAIN graphs[1]

\* C4: for every authority entity, a call appends one wikidata provenance
\* entry for each record whose normalized label that entity alone carries
\* among its normalized names, and the entity then holds the QID of one of
\* those records.
C4_SingleCarrierIsMerged ==
    [][MatchStep =>
        \A a \in AuthIds :
            /\ Len(Returned[a].sources)
                   = Len(AuthEntity(a).sources) + Cardinality(SingleCarrierMatches(a))
            /\ SingleCarrierMatches(a) # {}
               => DictGet(Returned[a].identifiers, "wikidata_qid", PyNone)
                      \in {WdQid(i) : i \in SingleCarrierMatches(a)}]_vars

\* C5: every authority id is a key of every returned graph, its entity keeps
\* the id, preferred label and outremer_auth identifier of the person record
\* it was seeded from, and the graph has at least as many entities as there
\* are authority entries.
C5_AuthorityEntitiesKept ==
    \A n \in {Len(graphs)} \ {0} :
        /\ \A k \in 1..Len(persons) :
              LET a == persons[k].authority_id
              IN /\ a \in DOMAIN graphs[n]
                 /\ graphs[n][a].id = a
                 /\ graphs[n][a].preferred_label = persons[k].preferred_label
                 /\ DictGet(graphs[n][a].identifiers, "outremer_auth", PyNone) = a
        /\ Cardinality(DOMAIN graphs[n]) >= Len(persons)

\* A call has returned a graph of two authority entities, one of them merged
\* with a Wikidata record, besides an entity that is not of the authority.
C5_Witness ==
    /\ Len(graphs) >= 1
    /\ Len(persons) >= 2
    /\ \E a \in AuthIds : "wikidata_qid" \in DOMAIN graphs[1][a].identifiers
    /\ Cardinality(DOMAIN graphs[1]) > Len(persons)

\* The mention's name, key and confidence as match_persons reads them.
ExtName(j) == DictGet(extracted[j], "name", <<>>)
ExtKey(j) == ExtractedPrefix \o slugify(ExtName(j))
ExtConfidence(j) == DictGet(extracted[j], "confidence", DefaultConfidence)

\* The mention's normalized name equals no authority normalized form and no
\* normalized Wikidata label.
Unrepresented(j) ==
    LET ext_norm == normalise(ExtName(j))
    IN /\ \A i \in 1..Len(authority) :
             ext_norm \notin Range(authority[i].names.normalized)
       /\ \A i \in 1..Len(wikidata) : ext_norm # WdNorm(i)

\* The entities of a graph that carry a provenance entry of type extraction.
ExtractionKeys(g) ==
    {k \in DOMAIN g : \E x \in 1..Len(g[k].sources) : g[k].sources[x].type = "extraction"}

\* C6, as claimed: every unrepresented mention has its entity
\* EXTRACTED:<slug>, flagged needs_review, with a provenance entry of the
\* mention's confidence; represented mentions create no entity, so every
\* entity of extraction provenance is the entity of an unrepresented mention.
C6_EveryUnmatchedMentionIsAnEntity ==
    \A n \in {Len(graphs)} \ {0} :
        /\ \A j \in 1..Len(extracted) :
              Unrepresented(j)
              => /\ ExtKey(j) \in DOMAIN graphs[n]
                 /\ graphs[n][ExtKey(j)].id = ExtKey(j)
                 /\ DictGet(graphs[n][ExtKey(j)].flags, "needs_review", FALSE)
                 /\ \E k \in 1..Len(graphs[n][ExtKey(j)].sources) :
                       graphs[n][ExtKey(j)].sources[k].confidence = ExtConfidence(j)
        /\ \A k \in ExtractionKeys(graphs[n]) :
              \E j \in 1..Len(extracted) :
                  /\ Unrepresented(j) /\ ExtKey(j) = k
                  /\ graphs[n][k].preferred_label = ExtName(j)

\* The mentions that can create an entity: named by three characters or more
\* and unrepresented.
Eligible(j) == Len(ExtName(j)) >= 3 /\ Unrepresented(j)

\* The last eligible mention with the slug of mention j.
LastOfSlug(j) ==
    CHOOSE l \in 1..Len(extracted) :
        /\ Eligible(l) /\ ExtKey(l) = ExtKey(j)
        /\ \A m \in 1..Len(extracted) : (Eligible(m) /\ ExtKey(m) = ExtKey(j)) => m <= l

\* C6, amended: every unrepresented mention whose name has at least three
\* characters has its entity EXTRACTED:<slug>, flagged needs_review, whose one
\* provenance entry carries the confidence (0.5 when the mention has none) of
\* the last such mention with that slug; a mention that is represented, or
\* shorter, creates no entity: every entity of extraction provenance is the
\* entity of the last such mention of its key.
C6_LongUnmatchedMentionIsAnEntity ==
    \A n \in {Len(graphs)} \ {0} :
        /\ \A j \in 1..Len(extracted) :
              Eligible(j)
              => /\ ExtKey(j) \in DOMAIN graphs[n]
                 /\ graphs[n][ExtKey(j)].id = ExtKey(j)
                 /\ DictGet(graphs[n][ExtKey(j)].flags, "needs_review", FALSE)
                 /\ Len(graphs[n][ExtKey(j)].sources) = 1
                 /\ graphs[n][ExtKey(j)].sources[1].type = "extraction"
                 /\ graphs[n][ExtKey(j)].sources[1].confidence
                        = ExtConfidence(LastOfSlug(j))
                 /\ graphs[n][ExtKey(j)].preferred_label = ExtName(LastOfSlug(j))
        /\ \A k \in ExtractionKeys(graphs[n]) :
              \E j \in 1..Len(extracted) : Eligible(j) /\ ExtKey(j) = k

\* A call has returned for mentions of which one created an entity, one was
\* represented by a source and one was too short.
C6_Witness ==
    /\ Len(graphs) >= 1
    /\ \E j \in 1..Len(extracted) : Eligible(j) /\ ExtKey(j) \in DOMAIN graphs[1]
    /\ \E j \in 1..Len(extracted) :
          (~Unrepresented(j) /\ Len(ExtName(j)) >= 3) \/ Len(ExtName(j)) < 3

\* ------------------------------------------------------------------------
\* Vocabulary of the linker's properties
\* ------------------------------------------------------------------------
\* The Link list the call returned.
Linked == links[1]

\* (mention name, best candidate id), "__none__" standing for no candidate.
PairOf(l) ==
    <<l.person, IF l.candidates = <<>> THEN NoneId ELSE l.candidates[1].outremer_id>>

\* The first position of a name among the input mentions.
FirstOccurrence(pname) ==
    CHOOSE k \in 1..Len(mentions) :
        /\ MentionName(mentions[k]) = pname
        /\ \A m \in 1..(k - 1) : MentionName(mentions[m]) # pname

PairScore(a, b) ==
    IF a = b THEN One
    ELSE IF IsSubstring(a, b) \/ IsSubstring(b, a)
    THEN Frac(Min(Len(a), Len(b)), Max(Len(a), Len(b)))
    ELSE _fuzzy_score(a, b, rapidfuzz)

\* The best variant score of an index entry for a mention name.
BestVariantScore(pnorm, e) ==
    LET scores == {PairScore(pnorm, e.all_norms[v]) : v \in 1..Len(e.all_norms)}
                      \cup {Zero}
    IN CHOOSE x \in scores : \A y \in scores : FracGE(x, y)

\* The positions of the index entries whose best variant score reaches
\* min_score.
Qualifying(pnorm) ==
    {k \in 1..Len(lookup) : FracGE(BestVariantScore(pnorm, lookup[k]), MinScoreDefault)}

\* The index positions of the candidates of a Link.
CandidatePositions(l) ==
    {k \in 1..Len(lookup) :
        \E c \in 1..Len(l.candidates) :
            l.candidates[c].outremer_id = lookup[k].authority_id}

\* C8: in every Link the candidates are of distinct authority ids, each is an
\* index entry whose best variant score is at least min_score and carries
\* that score, the scores do not increase along the list, the list has
\* min(top_k, number of qualifying entries) elements and no qualifying entry
\* left out scores higher than a candidate; the confidence is the first
\* candidate's score, or 0.0 without candidates.
C8_CandidatesRankedAndCut ==
    links # <<>> =>
        \A i \in 1..Len(Linked) :
            LET l == Linked[i]
                pnorm == normalise(l.person)
                n == Len(l.candidates)
            IN /\ \A c, d \in 1..n :
                     l.candidates[c].outremer_id = l.candidates[d].outremer_id => c = d
               /\ \A c \in 1..n :
                     \E k \in Qualifying(pnorm) :
                         /\ lookup[k].authority_id = l.candidates[c].outremer_id
                         /\ l.candidates[c].score
                                = Round4(BestVariantScore(pnorm, lookup[k]))
               /\ \A c \in 1..(n - 1) : l.candidates[c].score >= l.candidates[c + 1].score
               /\ n <= top_k
               /\ n = Min(top_k, Cardinality(Qualifying(pnorm)))
               /\ \A k \in Qualifying(pnorm) \ CandidatePositions(l) :
                     \A c \in 1..n :
                         l.candidates[c].score
                             >= Round4(BestVariantScore(pnorm, lookup[k]))
               /\ l.confidence = IF n = 0 THEN 0 ELSE l.candidates[1].score

\* The call has returned a Link whose candidate list was cut at top_k, with
\* candidates of different scores.
C8_Witness ==
    /\ links # <<>>
    /\ \E i \in 1..Len(Linked) :
          /\ Cardinality(Qualifying(normalise(Linked[i].person))) > top_k
          /\ Len(Linked[i].candidates) = top_k
          /\ \E k \in Qualifying(normalise(Linked[i].person)) :
                Round4(BestVariantScore(normalise(Linked[i].person), lookup[k]))
                    < Linked[i].confidence

\* C9: a mention whose normalized name is a normalized variant of an index
\* entry has a Link of status high and confidence 1.0 whose best candidate is
\* an entry carrying that variant, of match type exact.
C9_ExactVariantIsBestCandidate ==
    links # <<>> =>
        \A m \in 1..Len(mentions) :
            LET pname == MentionName(mentions[m])
                pnorm == normalise(pname)
            IN (pname # <<>> /\ \E k \in 1..Len(lookup) : pnorm \in Range(lookup[k].all_norms))
               => \E i \in 1..Len(Linked) :
                     /\ Linked[i].person = pname
                     /\ Linked[i].status = "high"
                     /\ Linked[i].confidence = TenThousand
                     /\ Linked[i].candidates # <<>>
                     /\ Linked[i].candidates[1].match_type = "exact"
                     /\ \E k \in 1..Len(lookup) :
                           /\ lookup[k].authority_id = Linked[i].candidates[1].outremer_id
                           /\ pnorm \in Range(lookup[k].all_norms)

\* The status the thresholds 0.90, 0.75 and 0.60 give a confidence, in
\* ten-thousandths.
StatusOfConfidence(c) ==
    IF c >= 9000 THEN "high"
    ELSE IF c >= 7500 THEN "medium"
    ELSE IF c >= 6000 THEN "low"
    ELSE "no_match"

\* no_match < low < medium < high
Rank(status) ==
    CASE status = "no_match" -> 0 [] status = "low" -> 1
      [] status = "medium" -> 2 [] status = "high" -> 3

\* Confidences on both sides of every threshold.
ThresholdGrid == {0, 5999, 6000, 6001, 7499, 7500, 7501, 8999, 9000, 9001, 10000}

\* C10: the status of every Link is the status its confidence has under the
\* thresholds 0.90 / 0.75 / 0.60, and a higher confidence never has a worse
\* status, among the Links returned and over the confidences around the
\* thresholds.
C10_StatusFollowsConfidence ==
    links # <<>> =>
        /\ \A i \in 1..Len(Linked) :
              Linked[i].status = StatusOfConfidence(Linked[i].confidence)
        /\ \A i, j \in 1..Len(Linked) :
              Linked[i].confidence > Linked[j].confidence
              => Rank(Linked[i].status) >= Rank(Linked[j].status)
        /\ \A c1, c2 \in ThresholdGrid :
              c1 > c2 => Rank(_status(c1)) >= Rank(_status(c2))

\* The call has returned Links of three different statuses, one of them of
\* a confidence of exactly 0.75.
C10_Witness ==
    /\ links # <<>>
    /\ \E i \in 1..Len(Linked) : Linked[i].confidence = 7500 /\ Linked[i].status = "medium"
    /\ \E i, j \in 1..Len(Linked) :
          /\ Linked[i].confidence > Linked[j].confidence
          /\ Rank(Linked[i].status) > Rank(Linked[j].status)

\* ------------------------------------------------------------------------
\* The scorer's tiers
\* ------------------------------------------------------------------------
\* The tier the fixed priority order gives a pair of normalized strings.
TierOf(a, b) ==
    IF a = b THEN "exact"
    ELSE IF IsSubstring(a, b) \/ IsSubstring(b, a) THEN "alias"
    ELSE "fuzzy"

\* The normalized names of the mentions that reach the scoring loop.
MentionNorms ==
    {normalise(MentionName(mentions[m])) :
        m \in {x \in 1..Len(mentions) : MentionName(mentions[x]) # <<>>}}

\* The normalized variants of the index.
VariantNorms == UNION {Range(lookup[k].all_norms) : k \in 1..Len(lookup)}

\* An index entry of the one variant b.
OneVariant(b) == [all_norms |-> <<b>>]

\* C11: for a normalized mention name a and a normalized variant b, the
\* scorer gives tier exact and score 1.0 when a = b, otherwise score
\* min(len)/max(len) when one contains the other (with tier alias when a is
\* not empty), otherwise the fuzzy score with tier fuzzy; an exact score is
\* strictly greater than every alias score; and every candidate returned
\* carries the tier and the score of a variant of its entry, tier exact
\* exactly when the entry has the name among its variants.
C11_TiersInPriorityOrder ==
    links # <<>> =>
        /\ \A a \in MentionNorms : \A b \in VariantNorms :
              LET best == ScoreEntry(a, OneVariant(b), rapidfuzz)
              IN /\ best.score.n * PairScore(a, b).d = PairScore(a, b).n * best.score.d
                 /\ (a = b) => (best.match_type = "exact" /\ Round4(best.score) = 10000)
                 /\ (a # b /\ (IsSubstring(a, b) \/ IsSubstring(b, a)))
                       => /\ a # <<>> => best.match_type = "alias"
                          /\ best.score.n * Max(Len(a), Len(b))
                                = Min(Len(a), Len(b)) * best.score.d
                          /\ FracGT(ScoreEntry(a, OneVariant(a), rapidfuzz).score,
                                    best.score)
                 /\ (a # b /\ ~IsSubstring(a, b) /\ ~IsSubstring(b, a))
                       => best.match_type = "fuzzy"
        /\ \A i \in 1..Len(Linked) : \A c \in 1..Len(Linked[i].candidates) :
              \A k \in 1..Len(lookup) :
                 lookup[k].authority_id = Linked[i].candidates[c].outremer_id
                 => LET a == normalise(Linked[i].person)
                        cand == Linked[i].candidates[c]
                        norms == Range(lookup[k].all_norms)
                    IN /\ (a \in norms) <=> (cand.match_type = "exact")
                       /\ cand.match_type = "exact" => cand.score = 10000
                       /\ cand.match_type \in {"alias", "fuzzy"}
                             => \E b \in norms :
                                   /\ TierOf(a, b) = cand.match_type
                                   /\ Round4(PairScore(a, b)) = cand.score

\* The call has returned a candidate of each tier.
C11_Witness ==
    /\ links # <<>>
    /\ \A t \in {"exact", "alias", "fuzzy"} :
          \E i \in 1..Len(Linked) : \E c \in 1..Len(Linked[i].candidates) :
              Linked[i].candidates[c].match_type = t

\* C12: for every non-empty normalized mention name a and normalized variant
\* b, distinct, one containing the other, the alias score the scorer gives
\* the pair is strictly greater than the fuzzy score of the same pair.
C12_AliasAboveFuzzy ==
    links # <<>> =>
        \A a \in MentionNorms \ {<<>>} : \A b \in VariantNorms :
            (a # b /\ (IsSubstring(a, b) \/ IsSubstring(b, a)))
            => FracGT(ScoreEntry(a, OneVariant(b), rapidfuzz).score,
                      _fuzzy_score(a, b, rapidfuzz))

\* C13: the returned Link list holds no Link for a mention whose normalized
\* name is the empty string.
C13_EmptyNormalizedNameHasNoLink ==
    links # <<>> =>
        \A m \in 1..Len(mentions) :
            normalise(MentionName(mentions[m])) = <<>>
            => \A i \in 1..Len(Linked) :
                  /\ Linked[i].person # MentionName(mentions[m])
                  /\ normalise(Linked[i].person) # <<>>

\* ------------------------------------------------------------------------
\* Properties of a run on a missing or malformed index
\* ------------------------------------------------------------------------
\* The index is missing, or what the path holds is not an index: no JSON, or
\* a JSON value that is no object.
MissingOrMalformed ==
    \/ index_file.kind \in {"missing", "invalid"}
    \/ index_file.kind = "json" /\ ~IsDict(index_file.value)

\* C14: in a run on a missing or malformed index nothing raises, and once
\* the mentions are linked every mention of a non-empty name has a Link of
\* no candidate, confidence 0.0 and status no_match.
C14_MissingIndexDegrades ==
    MissingOrMalformed =>
        /\ raised = ""
        /\ pc = "done" =>
              \A m \in 1..Len(mentions) :
                  MentionName(mentions[m]) # <<>>
                  => \E i \in 1..Len(Linked) :
                        /\ Linked[i].person = MentionName(mentions[m])
                        /\ Linked[i].candidates = <<>>
                        /\ Linked[i].confidence = 0
                        /\ Linked[i].status = "no_match"

\* The source records of the index file that have both an id and a label.
CompleteRecords ==
    LET HasBoth(e) == RecordId(e) # <<>> /\ RecordLabel(e) # <<>>
    IN SelectSeq(Entries(index_file.value), HasBoth)

\* C15: on an index file that holds a JSON object, building the lookup does
\* not raise, whatever fields the records missing an id or a label have, and
\* the lookup built holds one entry, in input order, for every record that
\* has both.
C15_IncompleteRecordsSkipped ==
    (index_file.kind = "json" /\ IsDict(index_file.value)) =>
        /\ raised = ""
        /\ pc \in {"link", "done"} =>
              /\ Len(lookup) = Len(CompleteRecords)
              /\ \A i \in 1..Len(lookup) :
                    /\ lookup[i].authority_id = RecordId(CompleteRecords[i])
                    /\ lookup[i].preferred_label = RecordLabel(CompleteRecords[i])

HasSourceOfType(e, t) == \E k \in 1..Len(e.sources) : e.sources[k].type = t

\* C17: in the graph a call of match_persons returned, every entity has at
\* least one provenance source entry, an entity with an outremer_auth
\* identifier has an authority entry and an entity with a wikidata_qid
\* identifier has a wikidata entry; there is no other identifier.
C17_IdentifiersHaveProvenance ==
    \A n \in {Len(graphs)} \ {0} :
        \A key \in DOMAIN graphs[n] :
            LET e == graphs[n][key]
            IN /\ Len(e.sources) >= 1
               /\ "outremer_auth" \in DOMAIN e.identifiers => HasSourceOfType(e, "authority")
               /\ "wikidata_qid" \in DOMAIN e.identifiers => HasSourceOfType(e, "wikidata")
               /\ DOMAIN e.identifiers \subseteq {"outremer_auth", "wikidata_qid"}

\* A call has returned a graph with an authority entity that carries a QID,
\* an entity of the export alone and an entity of an extraction alone.
C17_Witness ==
    /\ Len(graphs) >= 1
    /\ LET g == graphs[Len(graphs)]
       IN /\ \E key \in DOMAIN g :
                 DOMAIN g[key].identifiers = {"outremer_auth", "wikidata_qid"}
          /\ \E key \in DOMAIN g : DOMAIN g[key].identifiers = {"wikidata_qid"}
          /\ \E key \in DOMAIN g : DOMAIN g[key].identifiers = {}

\* The fields of an entity that a merge leaves alone.
FrameFields ==
    {"id", "preferred_label", "names", "bio", "roles", "relationships", "places", "flags"}

\* C18: a call of match_persons leaves, in every authority entity, the label,
\* names, bio, roles, relationships, places and flags as they were, keeps its
\* outremer_auth identifier and the provenance entries it had, and changes
\* nothing at all in an authority entity to which the reverse index maps no
\* export record; the same holds of the caller's authority dict.
C18_MergeChangesIdentifiersAndProvenanceOnly ==
    [][MatchStep =>
        \A a \in AuthIds :
            LET old == AuthEntity(a)
                new == Returned[a]
                kept == CHOOSE e \in Range(authority') : e.id = a
            IN /\ \A f \in FrameFields : new[f] = old[f]
               /\ \A k \in DOMAIN old.identifiers \ {"wikidata_qid"} :
                     k \in DOMAIN new.identifiers /\ new.identifiers[k] = old.identifiers[k]
               /\ SubSeq(new.sources, 1, Len(old.sources)) = old.sources
               /\ IndexMatches(a) = {} => new = old
               /\ IndexMatches(a) # {} =>
                     /\ new.identifiers.wikidata_qid \in {WdQid(i) : i \in IndexMatches(a)}
                     /\ Len(new.sources) = Len(old.sources) + Cardinality(IndexMatches(a))
               /\ kept = new]_vars

\* A call has returned a graph in which one authority entity was merged with
\* an export record and another was not.
C18_Witness ==
    /\ Len(graphs) >= 1
    /\ \E a, b \in AuthIds :
          /\ IndexMatches(a) # {}
          /\ IndexMatches(b) = {}
          /\ HasWikidataSource(graphs[1][a])
          /\ ~HasWikidataSource(graphs[1][b])

\* ------------------------------------------------------------------------
\* The date filter of reconcile_person
\* ------------------------------------------------------------------------
\* The search results that are Wikidata entities.
EntityResults ==
    {i \in 1..Len(rp_in.search.results) : StartsWithQ(rp_in.search.results[i].id)}

\* Both years of the entity are known and both are after 1500.
EntirelyAfterCutoff(qid) ==
    LET d == rp_in.dates[qid]
    IN /\ d.birth # <<>> /\ d.death # <<>>
       /\ d.birth[1] > 1500 /\ d.death[1] > 1500

ReturnedQids == {rp_out[1][c].qid : c \in 1..Len(rp_out[1])}

CacheKeys(cache) == UNION {{<<d, k>> : k \in DOMAIN cache[d]} : d \in DOMAIN cache}

FileKeys == IF rc_file.kind = "json" THEN CacheKeys(rc_file.value) ELSE {}

QueriesOfRun(n) == {q \in rc_queries : q.run = n}

\* C20: wikidata_matches.json is a cache keyed by document id and normalised
\* name.  A key the file already holds is not queried again by a run (so no
\* key is ever queried twice, and every query made has exactly the entry it
\* stored), no step changes an entry the file or the run's dict holds, and a
\* run over documents unchanged since the previous run makes no query and
\* writes the file it read.
C20_CacheNeverRequeried ==
    /\ [](/\ \A q \in rc_queries :
                (rc_pc.running /\ q.run = rc_pc.runs + 1)
                    => <<q.doc_id, q.key>> \notin FileKeys
          /\ \A q1, q2 \in rc_queries :
                (q1.doc_id = q2.doc_id /\ q1.key = q2.key) => q1 = q2
          /\ \A q \in rc_queries :
                <<q.doc_id, q.key>> \in CacheKeys(existing) \cup FileKeys)
    /\ [][/\ \A dk \in FileKeys :
                /\ dk \in CacheKeys(rc_file'.value)
                /\ rc_file'.value[dk[1]][dk[2]] = rc_file.value[dk[1]][dk[2]]
          /\ rc_pc.running =>
                \A dk \in CacheKeys(existing) :
                    /\ dk \in CacheKeys(existing')
                    /\ existing'[dk[1]][dk[2]] = existing[dk[1]][dk[2]]
          /\ (rc_pc.running /\ ~rc_pc'.running /\ rc_pc.runs >= 1 /\ ~rc_edited) =>
                /\ QueriesOfRun(rc_pc.runs + 1) = {}
                /\ rc_file' = rc_file]_vars

\* A second run has ended over the documents of the first, which queried
\* Wikidata and found a candidate.
C20_Witness ==
    /\ rc_pc = [runs |-> 2, running |-> FALSE, doc |-> 0, link |-> 0]
    /\ ~rc_edited
    /\ Len(rc_docs) = 2
    /\ QueriesOfRun(1) # {}
    /\ \E dk \in FileKeys : rc_file.value[dk[1]][dk[2]].candidates # <<>>

\* ------------------------------------------------------------------------
\* Vocabulary of the reconciliation client's error handling
\* ------------------------------------------------------------------------
CallsMade == {rc_calls[i] : i \in DOMAIN rc_calls}

\* The entry the run holds for the name a call was made for.
EntryOfCall(c) == existing[c.doc_id][c.key]

\* The keys a run over the documents has to have an entry for.
KeysDue ==
    UNION {{<<rc_docs[i].doc_id, NormaliseWd(LinkPerson(DocLinks(rc_docs[i])[j]))>> :
                j \in {k \in DOMAIN DocLinks(rc_docs[i]) :
                          ~SkippedLink(DocLinks(rc_docs[i])[k])}} :
            i \in DOMAIN rc_docs}

\* A run that went through every document and wrote its output.
RunWroteOutput ==
    (~rc_pc.running /\ rc_pc.runs >= 1) =>
        /\ rc_file.kind = "json"
        /\ \A c \in CallsMade : <<c.doc_id, c.key>> \in FileKeys
        /\ ~rc_edited => KeysDue \subseteq FileKeys

\* C21 as stated: every error raised while a name is queried, by the search
\* or by a date lookup, leaves the name with an empty candidate list, and the
\* run goes on to the other names and writes its output.
C21_ErrorYieldsEmptyList ==
    /\ \A c \in CallsMade :
          /\ <<c.doc_id, c.key>> \in CacheKeys(existing)
          /\ c.raised => EntryOfCall(c).candidates = <<>>
    /\ RunWroteOutput

\* C21 amended: an error of the name search leaves the name with an empty
\* candidate list; an error of a date lookup is caught as well and the entity
\* stays a candidate with unknown birth and death years; in both cases the
\* run goes on to the other names and documents and writes its output.
C21_ErrorsCaughtPerQuery ==
    /\ \A c \in CallsMade :
          /\ <<c.doc_id, c.key>> \in CacheKeys(existing)
          /\ (c.kind = "search" /\ c.raised) => EntryOfCall(c).candidates = <<>>
          /\ (c.kind = "dates" /\ c.raised) =>
                /\ EntryOfCall(c).candidates # <<>>
                /\ \A i \in DOMAIN EntryOfCall(c).candidates :
                      /\ EntryOfCall(c).candidates[i].birth_year = NoYear
                      /\ EntryOfCall(c).candidates[i].death_year = NoYear
    /\ RunWroteOutput

\* A run has ended in which a search failed, a date lookup failed, and a
\* name was queried after a failure.
C21_Witness ==
    /\ ~rc_pc.running
    /\ rc_pc.runs >= 1
    /\ \E i, j \in DOMAIN rc_calls :
          /\ i < j
          /\ rc_calls[i].raised
          /\ rc_calls[i].run = rc_calls[j].run
          /\ rc_calls[j].kind = "search"
          /\ rc_calls[i].kind # rc_calls[j].kind \/ rc_calls[j].raised
    /\ \E c \in CallsMade : c.kind = "search" /\ c.raised
    /\ \E c \in CallsMade : c.kind = "dates" /\ c.raised

\* The attempts made at the network call c: the calls of its kind made for
\* the same name of the same document in the same run.
Attempts(c) ==
    {i \in DOMAIN rc_calls :
        /\ rc_calls[i].kind = c.kind
        /\ rc_calls[i].run = c.run
        /\ rc_calls[i].doc_id = c.doc_id
        /\ rc_calls[i].key = c.key}

\* C22: a name search that failed and was given up with an empty candidate
\* list was attempted again at least once before it was given up, and no
\* more than a fixed number of times.
C22_FailedCallRetried ==
    \A c \in CallsMade :
        (c.kind = "search" /\ c.raised) =>
            /\ Cardinality(Attempts(c)) >= 2
            /\ Cardinality(Attempts(c)) <= MaxRuns + MaxLinks

\* C23: within a run, each network call is made at least WD_API_DELAY after
\* the network call before it, whether a name search or a date lookup.
C23_CallsArePaced ==
    \A i \in DOMAIN rc_calls :
        (i > 1 /\ rc_calls[i - 1].run = rc_calls[i].run) =>
            rc_calls[i].at - rc_calls[i - 1].at >= WD_API_DELAY

\* C29: a name whose search raised an error in one run is queried again by
\* the next run that ends over the documents.
C29_FailedLookupQueriedAgain ==
    \A c \in CallsMade :
        (c.kind = "search" /\ c.raised /\ rc_pc.runs > c.run) =>
            \E d \in CallsMade :
                /\ d.kind = "search"
                /\ d.run > c.run
                /\ d.doc_id = c.doc_id
                /\ d.key = c.key

\* ------------------------------------------------------------------------
\* More properties of the merger
\* ------------------------------------------------------------------------
\* C26: match_persons leaves its inputs as they were: the authority mapping
\* and every entity in it, identifier map and provenance list included, are
\* after any number of calls what load_outremer_authority built.
C26_InputsNotModified ==
    authority = load_outremer_authority(persons)

\* C27: in a returned graph an authority entity has at most one wikidata
\* provenance entry, and the QID of every export record that was merged into
\* it (the first such record included) is the QID its identifier map holds.
C27_QidNotOverwritten ==
    \A n \in 1..Len(graphs) :
        \A a \in AuthIds :
            /\ WikidataSources(graphs[n][a]) <= 1
            /\ \A i \in IndexMatches(a) :
                  DictGet(graphs[n][a].identifiers, "wikidata_qid", PyNone) = WdQid(i)

\* The mentions match_persons does not pass over for their length.
LongMentions == {j \in 1..Len(extracted) : ~SkippedName(ExtName(j))}

\* C24: a name whose normalized form is empty matches nothing: the QID of an
\* export record with such a label is in no authority entity of a returned
\* graph, and a mention with such a name, not being represented by any
\* entry, has an entity under its own key.
C24_EmptyNameUnmatchable ==
    \A n \in 1..Len(graphs) :
        /\ \A i \in 1..Len(wikidata) :
              WdNorm(i) = <<>> =>
                  \A a \in AuthIds :
                      DictGet(graphs[n][a].identifiers, "wikidata_qid", PyNone) # WdQid(i)
        /\ \A j \in LongMentions :
              normalise(ExtName(j)) = <<>> => ExtKey(j) \in DOMAIN graphs[n]

\* C28: in a returned graph every unmatched mention still has the entity made
\* for it when another mention has a different normalized name, and the
\* entities of the authority and of the export are the ones put there for
\* them.
C28_DifferentNamesDifferentEntities ==
    \A n \in 1..Len(graphs) :
        /\ \A j \in LongMentions :
              Unrepresented(j) =>
                  \E key \in DOMAIN graphs[n] :
                      /\ graphs[n][key].names.normalized = <<normalise(ExtName(j))>>
                      /\ graphs[n][key].flags = [needs_review |-> TRUE]
        /\ \A a \in AuthIds :
              DictGet(graphs[n][a].identifiers, "outremer_auth", PyNone) = a
        /\ \A i \in 1..Len(wikidata) :
              /\ WdKey(i) \in DOMAIN graphs[n]
              /\ graphs[n][WdKey(i)].identifiers = [wikidata_qid |-> WdQid(i)]

\* ------------------------------------------------------------------------
\* Properties of the normalisers and of the staging queue
\* ------------------------------------------------------------------------
\* C25: two names that normalise of the linker and merger gives one key are
\* given one key by normalise of the reconciliation cache and one key by
\* _normalise of the extraction.
C25_SameKeysEverywhere ==
    (key_out # <<>> /\ key_out.linker[1] = key_out.linker[2]) =>
        /\ key_out.cache[1] = key_out.cache[2]
        /\ key_out.dedup[1] = key_out.dedup[2]

\* C30: an item of the queue has status processed only if a pipeline run
\* started for it by cmd_process returned 0.
C30_ProcessedOnlyAfterSuccess ==
    \A i \in DOMAIN queue :
        queue[i].status = "processed" =>
            \E k \in DOMAIN pipeline :
                /\ pipeline[k].id = queue[i].id
                /\ pipeline[k].returncode = 0

====
